---------------------------- MODULE Spec2Model ----------------------------
(***************************************************************************)
(* Model of the marks transformer (src/transformer.py) and of the batch    *)
(* driver that calls it (src/transformer.py transform_dataframe,           *)
(* src/app.py transform_marks).                                            *)
(*                                                                         *)
(* Values.  A field of a raw record is a Python scalar:                    *)
(*   Num(n, d)  a number, the exact rational n/d (floats are modelled      *)
(*              exactly; binary rounding error is not modelled),           *)
(*   NaN        the float nan (an empty cell read by pandas),              *)
(*   Inf, NegInf  the float infinities (numpy division by zero),           *)
(*   Err        the outcome of an expression that raises,                  *)
(*   None       Python's None,                                             *)
(*   Str(s)     a text, s being the sequence of its characters.            *)
(* Texts are character sequences so that str(), float(), split("/"),       *)
(* strip() and upper() are computed as the code computes them.             *)
(***************************************************************************)
EXTENDS Integers, Sequences, FiniteSets, TLC

\* ------------------------------------------------------------------ values

Str(s) == [k |-> "str", s |-> s]
NaN == [k |-> "nan"]
Inf == [k |-> "inf"]
None == [k |-> "none"]
Blank == Str(<<>>)

RECURSIVE Gcd(_, _)
Gcd(a, b) == IF b = 0 THEN a ELSE Gcd(b, a % b)

Abs(x) == IF x < 0 THEN -x ELSE x

\* The rational n/d in lowest terms with a positive denominator (d # 0).
Num(n, d) ==
    LET g == Gcd(Abs(n), Abs(d))
        s == IF d < 0 THEN -1 ELSE 1
    IN  [k |-> "num", n |-> s * (n \div g), d |-> s * (d \div g)]

Int2Num(n) == [k |-> "num", n |-> n, d |-> 1]

IsNum(v) == v.k = "num"
IsStr(v) == v.k = "str"

Err == [k |-> "err"]
NegInf == [k |-> "ninf"]

IsErr(v) == v.k = "err"

\* A float: a number, nan or an infinity.
IsFloat(v) == v.k \in {"num", "nan", "inf", "ninf"}

\* Float arithmetic as the code's expressions compute it.  A text or None as
\* an operand is Python's TypeError, and a zero divisor of a Python float its
\* ZeroDivisionError: both are the value Err, which the caller turns into the
\* except branch of the enclosing try or into a raise.  nan propagates.
\* The infinities come only from numpy's division by zero (NpDiv).
IsInfinite(a) == a.k \in {"inf", "ninf"}

Sgn(a) ==
    IF a.k = "inf" THEN 1 ELSE IF a.k = "ninf" THEN -1
    ELSE IF a.n > 0 THEN 1 ELSE IF a.n < 0 THEN -1 ELSE 0

Signed(sg) == IF sg > 0 THEN Inf ELSE IF sg < 0 THEN NegInf ELSE NaN

Neg(a) ==
    IF a.k = "num" THEN [a EXCEPT !.n = -a.n]
    ELSE IF a.k = "inf" THEN NegInf ELSE IF a.k = "ninf" THEN Inf ELSE a

FAdd(a, b) ==
    IF ~IsFloat(a) \/ ~IsFloat(b) THEN Err
    ELSE IF a.k = "nan" \/ b.k = "nan" THEN NaN
    ELSE IF IsInfinite(a) THEN (IF IsInfinite(b) /\ b # a THEN NaN ELSE a)
    ELSE IF IsInfinite(b) THEN b
    ELSE Num(a.n * b.d + b.n * a.d, a.d * b.d)

FSub(a, b) == IF IsFloat(b) THEN FAdd(a, Neg(b)) ELSE Err

FMul(a, b) ==
    IF ~IsFloat(a) \/ ~IsFloat(b) THEN Err
    ELSE IF a.k = "nan" \/ b.k = "nan" THEN NaN
    ELSE IF IsInfinite(a) \/ IsInfinite(b) THEN Signed(Sgn(a) * Sgn(b))
    ELSE Num(a.n * b.n, a.d * b.d)

FDiv(a, b) ==
    IF ~IsFloat(a) \/ ~IsFloat(b) THEN Err
    ELSE IF b.k = "num" /\ b.n = 0 THEN Err
    ELSE IF a.k = "nan" \/ b.k = "nan" THEN NaN
    ELSE IF IsInfinite(a) THEN (IF IsInfinite(b) THEN NaN ELSE Signed(Sgn(a) * Sgn(b)))
    ELSE IF IsInfinite(b) THEN Num(0, 1)
    ELSE Num(a.n * b.d, a.d * b.n)

\* Division of numpy scalars (the results of pd.to_numeric): a zero divisor
\* gives an infinity or nan with a warning, never an exception.
NpDiv(a, b) ==
    IF a.k = "num" /\ b.k = "num" /\ b.n = 0
    THEN (IF a.n > 0 THEN Inf ELSE IF a.n < 0 THEN NegInf ELSE NaN)
    ELSE FDiv(a, b)

\* Comparisons of floats: every comparison with nan is false.
Rank(a) == IF a.k = "ninf" THEN -1 ELSE IF a.k = "inf" THEN 1 ELSE 0

FLt(a, b) ==
    IF a.k = "nan" \/ b.k = "nan" THEN FALSE
    ELSE IF a.k = "num" /\ b.k = "num" THEN a.n * b.d < b.n * a.d
    ELSE Rank(a) < Rank(b)

FLe(a, b) ==
    IF a.k = "nan" \/ b.k = "nan" THEN FALSE
    ELSE IF a.k = "num" /\ b.k = "num" THEN a.n * b.d <= b.n * a.d
    ELSE Rank(a) <= Rank(b)

FGt(a, b) == FLt(b, a)

FGe(a, b) == FLe(b, a)

\* Python's max(a, b) and min(a, b): the first argument unless the second
\* compares greater (less), so a nan second argument is dropped.
PyMax(a, b) == IF FGt(b, a) THEN b ELSE a

PyMin(a, b) == IF FLt(b, a) THEN b ELSE a

\* int(round(x)) for a finite x: round half to even.
RoundHalfEven(x) ==
    LET fl == IF x.n >= 0 THEN x.n \div x.d ELSE -((-x.n + x.d - 1) \div x.d)
        r2 == 2 * (x.n - fl * x.d)      \* twice the fractional part, times d
    IN  IF r2 < x.d THEN fl
        ELSE IF r2 > x.d THEN fl + 1
        ELSE IF fl % 2 = 0 THEN fl ELSE fl + 1

\* round(x, 2): to two decimals; nan and the infinities are kept.
Round2(x) ==
    IF x.k = "num" THEN Num(RoundHalfEven(Num(x.n * 100, x.d)), 100) ELSE x

\* -------------------------------------------------------------------- texts

Digits == <<"0", "1", "2", "3", "4", "5", "6", "7", "8", "9">>

IsDigit(c) == \E j \in 1..10 : Digits[j] = c

DigitVal(c) == (CHOOSE j \in 1..10 : Digits[j] = c) - 1

\* str.strip(): leading and trailing blanks removed.
RECURSIVE LStrip(_)
LStrip(s) == IF s # <<>> /\ Head(s) = " " THEN LStrip(Tail(s)) ELSE s

RECURSIVE RStrip(_)
RStrip(s) ==
    IF s # <<>> /\ s[Len(s)] = " " THEN RStrip(SubSeq(s, 1, Len(s) - 1)) ELSE s

Strip(s) == RStrip(LStrip(s))

\* "/" in s
HasSlash(s) == \E j \in 1..Len(s) : s[j] = "/"

\* s.split("/")[0] and s.split("/")[1], for a text that holds a "/".
FirstSlash(s) == CHOOSE j \in 1..Len(s) : s[j] = "/" /\ \A h \in 1..(j - 1) : s[h] # "/"

SplitPart0(s) == SubSeq(s, 1, FirstSlash(s) - 1)

\* A variant that takes the part before the slash for the part after it (to
\* test C25).
SplitPart1AsFirst(s) == SubSeq(s, 1, FirstSlash(s) - 1)

SplitPart1(s) ==
    LET rest == SubSeq(s, FirstSlash(s) + 1, Len(s))
    IN  IF HasSlash(rest) THEN SplitPart0(rest) ELSE rest

UpperChar(c) == IF c = "a" THEN "A" ELSE IF c = "b" THEN "B" ELSE IF c = "n" THEN "N" ELSE c

LowerChar(c) == IF c = "A" THEN "a" ELSE IF c = "B" THEN "b" ELSE IF c = "N" THEN "n" ELSE c

Upper(s) == [j \in 1..Len(s) |-> UpperChar(s[j])]

Lower(s) == [j \in 1..Len(s) |-> LowerChar(s[j])]

\* The value of a run of digits.
RECURSIVE DigitsVal(_)
DigitsVal(s) ==
    IF s = <<>> THEN 0
    ELSE 10 * DigitsVal(SubSeq(s, 1, Len(s) - 1)) + DigitVal(s[Len(s)])

RECURSIVE Pow10(_)
Pow10(e) == IF e = 0 THEN 1 ELSE 10 * Pow10(e - 1)

AllDigits(s) == \A j \in 1..Len(s) : IsDigit(s[j])

\* An unsigned decimal literal: digits, optionally a point and more digits,
\* with a digit on at least one side of the point.
IsUnsignedDecimal(s) ==
    \/ s # <<>> /\ AllDigits(s)
    \/ \E p \in 1..Len(s) :
          /\ s[p] = "."
          /\ AllDigits(SubSeq(s, 1, p - 1))
          /\ AllDigits(SubSeq(s, p + 1, Len(s)))
          /\ Len(s) > 1

UnsignedDecimalVal(s) ==
    IF AllDigits(s) THEN Int2Num(DigitsVal(s))
    ELSE LET p == CHOOSE q \in 1..Len(s) : s[q] = "."
             fr == SubSeq(s, p + 1, Len(s))
         IN  Num(DigitsVal(SubSeq(s, 1, p - 1)) * Pow10(Len(fr)) + DigitsVal(fr),
                 Pow10(Len(fr)))

\* Parsing a text as a float, as float(text) and pd.to_numeric(text) both do:
\* blanks around it are dropped, then an optional sign and a decimal literal,
\* or the word nan in any case.  "fail" is a text that is no number.
\* (Exponents, "inf", "+" and "_" are not in the alphabet of the model.)
ParseFloat(s) ==
    LET t == Strip(s)
        neg == t # <<>> /\ Head(t) = "-"
        u == IF neg THEN Tail(t) ELSE t
    IN  IF Lower(u) = <<"n", "a", "n">> THEN [ok |-> TRUE, v |-> NaN]
        ELSE IF IsUnsignedDecimal(u)
             THEN LET w == UnsignedDecimalVal(u)
                  IN  [ok |-> TRUE, v |-> IF neg THEN Num(-w.n, w.d) ELSE w]
        ELSE [ok |-> FALSE, v |-> NaN]

\* The decimal digits of a natural number.
RECURSIVE FormatNat(_)
FormatNat(n) ==
    IF n < 10 THEN <<Digits[n + 1]>>
    ELSE FormatNat(n \div 10) \o <<Digits[(n % 10) + 1]>>

FormatInt(n) == IF n < 0 THEN <<"-">> \o FormatNat(-n) ELSE FormatNat(n)

\* str(x) of a number: the digits of an integer, and for a fraction its
\* decimal expansion to two places (exact for the tenths and hundredths that
\* inputs carry; a computed value such as 100/3 is cut, which only the tests
\* against fixed texts ("", "nan", "None", "AB") and "/" read).
FormatNum(v) ==
    IF v.d = 1 THEN FormatInt(v.n)
    ELSE LET a == Abs(v.n)
             whole == a \div v.d
             hund == ((a - whole * v.d) * 100) \div v.d
             t1 == hund \div 10
             t2 == hund % 10
         IN  (IF v.n < 0 THEN <<"-">> ELSE <<>>) \o FormatNat(whole) \o <<".">>
                 \o <<Digits[t1 + 1]>> \o (IF t2 = 0 THEN <<>> ELSE <<Digits[t2 + 1]>>)

\* ------------------------------------------------- Python builtins on values

\* str(v)
PyStr(v) ==
    CASE v.k = "str" -> v.s
      [] v.k = "nan" -> <<"n", "a", "n">>
      [] v.k = "inf" -> <<"i", "n", "f">>
      [] v.k = "ninf" -> <<"-", "i", "n", "f">>
      [] v.k = "none" -> <<"N", "o", "n", "e">>
      [] v.k = "num" -> FormatNum(v)

\* float(v): [ok, v]; not ok is the ValueError (a text that is no number) or
\* the TypeError (None) that float raises.
PyFloat(v) ==
    CASE v.k = "str" -> ParseFloat(v.s)
      [] v.k = "none" -> [ok |-> FALSE, v |-> NaN]
      [] OTHER -> [ok |-> TRUE, v |-> v]

\* A variant that coerces what cannot be parsed to 0 (to test C24).
ToNumericOrZero(v) ==
    CASE v.k = "str" -> (IF ParseFloat(v.s).ok THEN ParseFloat(v.s).v ELSE Int2Num(0))
      [] v.k = "none" -> Int2Num(0)
      [] OTHER -> v

\* pd.to_numeric(v, errors="coerce") of a scalar: what cannot be parsed is nan.
ToNumeric(v) ==
    CASE v.k = "str" -> (IF ParseFloat(v.s).ok THEN ParseFloat(v.s).v ELSE NaN)
      [] v.k = "none" -> NaN
      [] OTHER -> v

\* bool(v): the empty text, None and zero are false; nan is true.
Truthy(v) ==
    CASE v.k = "str" -> v.s # <<>>
      [] v.k = "none" -> FALSE
      [] v.k = "num" -> v.n # 0
      [] OTHER -> TRUE

\* pd.notna(v)
NotNa(v) == v.k # "nan" /\ v.k # "none"

\* A variant that takes the texts "nan" and "None" as values (to test C20).
NonBlankTextOrNan(v) == Strip(PyStr(v)) # <<>>

\* str(v).strip() not in ["", "nan", "None"]
NonBlankText(v) ==
    Strip(PyStr(v)) \notin {<<>>, <<"n", "a", "n">>, <<"N", "o", "n", "e">>}

\* v not in ["", None, "AB"]   (== on a nan is false)
NotEmptyNoneAB(v) == v # Blank /\ v # None /\ v # Str(<<"A", "B">>)

\* v not in ["", None]
NotEmptyNone(v) == v # Blank /\ v # None

\* ---------------------------------------------------------- scheme registry

\* The insertion order of the SCHEME_CONFIG dictionary, which .items() follows.
SchemeNames ==
    <<"scheme1", "scheme2", "scheme3", "scheme4", "scheme5", "scheme6", "scheme7",
      "scheme8">>

\* A variant of the registry in which scheme1 lists BCA as well (to test C2).
SCHEME_CONFIG_shared ==
    [scheme1 |->
        [theory_passing |-> 36, practical_passing |-> 40, aggregate_passing |-> 40,
         courses |-> <<"B.A.", "B.A.-B.Ed.S", "B.COM", "B.Ed.(CD)", "B.ED.(G)",
                       "B.Ed.-M.Ed.", "B.Sc.-B.Ed.", "BPES", "M.A. ARCHEOLOGY",
                       "M.Ed.", "BCA">>],
     scheme2 |->
        [theory_passing |-> 36, practical_passing |-> 36, aggregate_passing |-> 40,
         courses |-> <<"B.Sc.-AGRICULTURE", "B.Sc.-BIO/BCZ/SBS/CBZ",
                       "B.Sc.-BIO-TECHNOLOGY", "B.Sc.-PCM", "B.Sc.-PMC", "B.Sc.-PMS",
                       "DIPLOMA IN ARCHEOLOGY", "M.A. JYOTIRVIGYAN", "M.A. MUSIC",
                       "M.A. PHYSICAL EDUCATION", "M.A. PSYCHOLOGY", "M.A. SOCIOLOGY",
                       "M.A. YOGA", "M.A.-ECONOMICS", "M.A.-ENGLISH", "M.A.-GEOGRAPHY",
                       "M.A.-HINDI", "M.A.-HISTORY", "M.A.-POLITICAL SCIENCE",
                       "M.A.-SANSKRIT", "M.COM. ACCOUNTING",
                       "M.COM.-BUSINESS ADMINISTRATION", "M.PED.",
                       "M.Sc. BioTechnology", "M.Sc. BOTANY", "M.Sc. CHEMISTRY",
                       "M.Sc. ENVIRONMENTAL SCIENCE", "M.Sc. MATHS", "M.Sc. PHYSICS",
                       "M.Sc. ZOOLOGY", "MASTER OF SOCIAL WORK">>],
     scheme3 |->
        [theory_passing |-> 40, practical_passing |-> 50, aggregate_passing |-> 50,
         courses |-> <<"M.Sc. COMPUTER SCIENCE", "BCA", "MCA", "MHRM", "PGDCA",
                       "B.Sc.-DATA SCIENCE">>],
     scheme4 |->
        [theory_passing |-> 40, practical_passing |-> 40, aggregate_passing |-> 50,
         courses |-> <<"BBA", "MBA">>],
     scheme5 |->
        [theory_passing |-> 40, practical_passing |-> 40, aggregate_passing |-> 45,
         courses |-> <<"BBA TT">>],
     scheme6 |->
        [theory_passing |-> 50, practical_passing |-> 50, aggregate_passing |-> 50,
         courses |-> <<"BPT">>],
     scheme7 |->
        [theory_passing |-> 60, practical_passing |-> 60, aggregate_passing |-> 60,
         courses |-> <<"M.Sc. Agriculture">>],
     scheme8 |->
        [theory_passing |-> 40, practical_passing |-> 40, aggregate_passing |-> 48,
         courses |-> <<"P.G. DIPLOMA IN CRIMINAL LAWS AND FORENSIC SCIENCE">>]]

SCHEME_CONFIG ==
    [scheme1 |->
        [theory_passing |-> 36, practical_passing |-> 40, aggregate_passing |-> 40,
         courses |-> <<"B.A.", "B.A.-B.Ed.S", "B.COM", "B.Ed.(CD)", "B.ED.(G)",
                       "B.Ed.-M.Ed.", "B.Sc.-B.Ed.", "BPES", "M.A. ARCHEOLOGY",
                       "M.Ed.">>],
     scheme2 |->
        [theory_passing |-> 36, practical_passing |-> 36, aggregate_passing |-> 40,
         courses |-> <<"B.Sc.-AGRICULTURE", "B.Sc.-BIO/BCZ/SBS/CBZ",
                       "B.Sc.-BIO-TECHNOLOGY", "B.Sc.-PCM", "B.Sc.-PMC", "B.Sc.-PMS",
                       "DIPLOMA IN ARCHEOLOGY", "M.A. JYOTIRVIGYAN", "M.A. MUSIC",
                       "M.A. PHYSICAL EDUCATION", "M.A. PSYCHOLOGY", "M.A. SOCIOLOGY",
                       "M.A. YOGA", "M.A.-ECONOMICS", "M.A.-ENGLISH", "M.A.-GEOGRAPHY",
                       "M.A.-HINDI", "M.A.-HISTORY", "M.A.-POLITICAL SCIENCE",
                       "M.A.-SANSKRIT", "M.COM. ACCOUNTING",
                       "M.COM.-BUSINESS ADMINISTRATION", "M.PED.",
                       "M.Sc. BioTechnology", "M.Sc. BOTANY", "M.Sc. CHEMISTRY",
                       "M.Sc. ENVIRONMENTAL SCIENCE", "M.Sc. MATHS", "M.Sc. PHYSICS",
                       "M.Sc. ZOOLOGY", "MASTER OF SOCIAL WORK">>],
     scheme3 |->
        [theory_passing |-> 40, practical_passing |-> 50, aggregate_passing |-> 50,
         courses |-> <<"M.Sc. COMPUTER SCIENCE", "BCA", "MCA", "MHRM", "PGDCA",
                       "B.Sc.-DATA SCIENCE">>],
     scheme4 |->
        [theory_passing |-> 40, practical_passing |-> 40, aggregate_passing |-> 50,
         courses |-> <<"BBA", "MBA">>],
     scheme5 |->
        [theory_passing |-> 40, practical_passing |-> 40, aggregate_passing |-> 45,
         courses |-> <<"BBA TT">>],
     scheme6 |->
        [theory_passing |-> 50, practical_passing |-> 50, aggregate_passing |-> 50,
         courses |-> <<"BPT">>],
     scheme7 |->
        [theory_passing |-> 60, practical_passing |-> 60, aggregate_passing |-> 60,
         courses |-> <<"M.Sc. Agriculture">>],
     scheme8 |->
        [theory_passing |-> 40, practical_passing |-> 40, aggregate_passing |-> 48,
         courses |-> <<"P.G. DIPLOMA IN CRIMINAL LAWS AND FORENSIC SCIENCE">>]]

\* course in config["courses"]: exact equality with an element of the list.
InList(x, list) == \E j \in 1..Len(list) : list[j] = x

\* get_scheme_for_course over the schemes in the order `order`: the first
\* scheme whose course list holds the course, or the ValueError.
RECURSIVE LookupFrom(_, _, _)
LookupFrom(order, j, c) ==
    IF j > Len(order) THEN [found |-> FALSE, scheme_name |-> "ValueError"]
    ELSE IF InList(c, SCHEME_CONFIG[order[j]].courses)
         THEN [found |-> TRUE, scheme_name |-> order[j]]
         ELSE LookupFrom(order, j + 1, c)

\* A variant that falls back to the first scheme instead of raising (to test C1).
get_scheme_for_course_or_default(c) ==
    IF LookupFrom(SchemeNames, 1, c).found THEN LookupFrom(SchemeNames, 1, c)
    ELSE [found |-> TRUE, scheme_name |-> "scheme1"]

get_scheme_for_course(c) == LookupFrom(SchemeNames, 1, c)

\* -------------------------------------------------------------- grade table

AB == <<"A", "B">>

\* A variant whose top band starts above 91 instead of at 91 (to test C10).
compute_grade_and_points_above(percent_marks, is_practical, cfg) ==
    IF Upper(Strip(PyStr(percent_marks))) = AB THEN [grade |-> AB, gp |-> 0]
    ELSE IF ~PyFloat(percent_marks).ok THEN [grade |-> <<>>, gp |-> 0]
    ELSE LET percent == PyFloat(percent_marks).v
             config == IF cfg = None THEN SCHEME_CONFIG["scheme1"] ELSE cfg
             min_passing == IF is_practical THEN config.practical_passing
                            ELSE config.theory_passing
         IN  IF FGt(percent, Int2Num(91)) THEN [grade |-> <<"O">>, gp |-> 10]
             ELSE IF FGe(percent, Int2Num(81)) THEN [grade |-> <<"A", "+">>, gp |-> 9]
             ELSE IF FGe(percent, Int2Num(71)) THEN [grade |-> <<"A">>, gp |-> 8]
             ELSE IF FGe(percent, Int2Num(61)) THEN [grade |-> <<"B", "+">>, gp |-> 7]
             ELSE IF FGe(percent, Int2Num(51)) THEN [grade |-> <<"B">>, gp |-> 6]
             ELSE IF FGe(percent, Int2Num(41)) THEN [grade |-> <<"C", "+">>, gp |-> 5]
             ELSE IF FGe(percent, Int2Num(min_passing)) THEN [grade |-> <<"C">>, gp |-> 4]
             ELSE [grade |-> <<"F">>, gp |-> 0]

\* compute_grade_and_points(percent_marks, is_practical, scheme_config):
\* the pair of the grade letter (its characters) and the grade points.
compute_grade_and_points(percent_marks, is_practical, cfg) ==
    IF Upper(Strip(PyStr(percent_marks))) = AB THEN [grade |-> AB, gp |-> 0]
    ELSE IF ~PyFloat(percent_marks).ok THEN [grade |-> <<>>, gp |-> 0]
    ELSE LET percent == PyFloat(percent_marks).v
             config == IF cfg = None THEN SCHEME_CONFIG["scheme1"] ELSE cfg
             min_passing == IF is_practical THEN config.practical_passing
                            ELSE config.theory_passing
         IN  IF FGe(percent, Int2Num(91)) THEN [grade |-> <<"O">>, gp |-> 10]
             ELSE IF FGe(percent, Int2Num(81)) THEN [grade |-> <<"A", "+">>, gp |-> 9]
             ELSE IF FGe(percent, Int2Num(71)) THEN [grade |-> <<"A">>, gp |-> 8]
             ELSE IF FGe(percent, Int2Num(61)) THEN [grade |-> <<"B", "+">>, gp |-> 7]
             ELSE IF FGe(percent, Int2Num(51)) THEN [grade |-> <<"B">>, gp |-> 6]
             ELSE IF FGe(percent, Int2Num(41)) THEN [grade |-> <<"C", "+">>, gp |-> 5]
             ELSE IF FGe(percent, Int2Num(min_passing)) THEN [grade |-> <<"C">>, gp |-> 4]
             ELSE [grade |-> <<"F">>, gp |-> 0]

\* ------------------------------------------------------------ transform_row

\* The loops of transform_row run over range(1, 20); the model runs them over
\* 1..MaxIdx.
MaxIdx == 2

\* A raw record maps field names to scalars.  The name f"EA{i}" is the key
\* <<"EA", i>>; a name without an index, such as "GTOT", is <<"GTOT", 0>>.
\* The output record is keyed alike: f"SUB{k}_TOT" is <<"SUB_TOT", k>>,
\* f"SUB{k}NM" is <<"SUBNM", k>> and f"SUB{k}" is <<"SUB", k>>.
K(name, j) == <<name, j>>

\* row.get(key, default)
Get(d, key, default) == IF key \in DOMAIN d THEN d[key] ELSE default

\* dict[key] = value for every key of upd
Put(d, upd) == upd @@ d

\* subject_meta[idx] = kind on a dictionary kept as its items in insertion
\* order: a new key is appended, an old one keeps its place.
MetaPut(meta, idx, kind) ==
    IF \E j \in 1..Len(meta) : meta[j][1] = idx
    THEN [j \in 1..Len(meta) |-> IF meta[j][1] = idx THEN <<idx, kind>> ELSE meta[j]]
    ELSE Append(meta, <<idx, kind>>)

MetaKind(meta, idx) == (CHOOSE m \in {meta[j] : j \in 1..Len(meta)} : m[1] = idx)[2]

\* float(x) if x not in ["", None, "AB"] else 0
MarkOrZero(x) == IF NotEmptyNoneAB(x) THEN PyFloat(x) ELSE [ok |-> TRUE, v |-> Int2Num(0)]

\* float(x) if x not in ["", None] else dflt
FloatOrDefault(x, dflt) ==
    IF NotEmptyNone(x) THEN PyFloat(x) ELSE [ok |-> TRUE, v |-> Int2Num(dflt)]

\* Lines 203-246: the locals of transform_row and the direct mappings.  The
\* identity fields that are copied unread (ORG_NAME ... EXAM_TYPE, and DOB
\* through format_dob) are left out; RESULT and the grand total are kept.
StartRow(row) ==
    LET grand_tot == Strip(PyStr(Get(row, K("GTOT", 0), Blank)))
        split == IF HasSlash(grand_tot)
                 THEN K("GRAND_TOT_MRKS", 0) :> Str(Strip(SplitPart0(grand_tot)))
                      @@ K("GRAND_TOT_MAX", 0) :> Str(Strip(SplitPart1(grand_tot)))
                 ELSE K("GRAND_TOT_MRKS", 0) :> Str(grand_tot)
                      @@ K("GRAND_TOT_MAX", 0) :> Get(row, K("TTOT", 0), Blank)
        nr0 == Put(K("RESULT", 0) :> Get(row, K("RESULT", 0), Blank), split)
        nr1 == Put(nr0, K("GRAND_TOT_MAX", 0) :> Get(row, K("GTOT_MAX", 0), Blank))
        nr2 == Put(nr1, K("TOT_MRKS", 0) :> Get(row, K("GTOT", 0), Blank)
                        @@ K("PERCENT", 0) :> Get(row, K("PER", 0), Blank))
    IN  [new_row |-> nr2,
         subject_counter |-> 1,
         theory_subjects |-> <<>>,
         subject_meta |-> <<>>,
         failed_subjects |-> <<>>,
         shortfall |-> Int2Num(0),
         grace_limit |-> Int2Num(0),
         allow_grace |-> FALSE,
         total_credits |-> Int2Num(0),
         total_credit_points |-> Int2Num(0),
         raised |-> FALSE]

\* Lines 304-361: the legacy (PRSUB) practical of source index i, reached only
\* after a theory subject was found at i.
LegacyPractical(f, row, i) ==
    LET prsub == Get(row, K("PRSUB", i), Blank)
        sub_idx == f.subject_counter
        pract_tot == Strip(PyStr(Get(row, K("P", i), Blank)))
        p0 == Strip(SplitPart0(pract_tot))
        p1 == Strip(SplitPart1(pract_tot))
        pract_marks == IF HasSlash(pract_tot) THEN ToNumeric(Str(p0))
                       ELSE ToNumeric(Str(pract_tot))
        pract_max == IF HasSlash(pract_tot) THEN ToNumeric(Str(p1)) ELSE Int2Num(50)
        converted_marks == FMul(NpDiv(pract_marks, pract_max), Int2Num(100))
        marks_upd ==
            K("SUB_PR_MRKS", sub_idx) :> (IF HasSlash(pract_tot) THEN Str(p0) ELSE Str(pract_tot))
            @@ K("SUB_PR_MAX", sub_idx) :> (IF HasSlash(pract_tot) THEN Str(p1) ELSE Int2Num(50))
            @@ K("SUB_TOT", sub_idx) :> pract_marks
            @@ K("SUB_PERCENT", sub_idx) :>
                 (IF NotNa(converted_marks) THEN Round2(converted_marks) ELSE Blank)
        upd == K("SUBNM", sub_idx) :> Str(Strip(PyStr(prsub)))
               @@ K("SUB", sub_idx) :> Str(Strip(PyStr(Get(row, K("PR", i), Blank))))
               @@ marks_upd
               @@ K("SUB_TH_MAX", sub_idx) :> Blank
               @@ K("SUB_CE_MAX", sub_idx) :> Blank
               @@ K("SUB_TH_MRKS", sub_idx) :> Blank
               @@ K("SUB_CE_MRKS", sub_idx) :> Blank
               @@ K("SUB_GRADE", sub_idx) :> Blank
               @@ K("SUB_GRADE_POINTS", sub_idx) :> Blank
               @@ K("SUB_CREDIT", sub_idx) :> Get(row, K("CH", sub_idx), Blank)
               @@ K("SUB_CREDIT_POINTS", sub_idx) :> Blank
    IN  IF NotNa(prsub) /\ Strip(PyStr(prsub)) # <<>>
        THEN [f EXCEPT !.new_row = Put(f.new_row, upd),
                       !.subject_meta = MetaPut(f.subject_meta, sub_idx, "practical"),
                       !.subject_counter = sub_idx + 1]
        ELSE f

\* Lines 249-361: one iteration of the theory loop, for source index i.
TheoryIter(f, row, i) ==
    LET sub_name == Strip(PyStr(Get(row, K("TIT", i), Blank)))
        sub_detail == Strip(PyStr(Get(row, K("SUB", i), Blank)))
        sub_code == Strip(PyStr(Get(row, K("COD", i), Blank)))
        sub_idx == f.subject_counter
        th_marks == Get(row, K("EA", i), Blank)
        ce_marks == Get(row, K("IA", i), Blank)
        total_max_marks == Get(row, K("T_MAX", i), Blank)
        use_total_max == Truthy(total_max_marks) /\ NonBlankText(total_max_marks)
        th_val == MarkOrZero(th_marks)
        ce_val == MarkOrZero(ce_marks)
        calculated_total ==
            IF use_total_max THEN ToNumeric(Get(row, K("T", i), Blank))
            ELSE IF th_val.ok /\ ce_val.ok THEN FAdd(th_val.v, ce_val.v)
            ELSE ToNumeric(Get(row, K("T", i), Blank))
        max_marks_for_calculation ==
            IF use_total_max
            THEN (IF PyFloat(total_max_marks).ok THEN PyFloat(total_max_marks).v
                  ELSE Int2Num(100))
            ELSE Int2Num(100)
        percent == IF FGt(max_marks_for_calculation, Int2Num(0))
                   THEN FMul(FDiv(calculated_total, max_marks_for_calculation), Int2Num(100))
                   ELSE Int2Num(0)
        upd == K("SUB_TH_MAX", sub_idx) :> (IF use_total_max THEN Blank ELSE Int2Num(70))
               @@ K("SUB_CE_MAX", sub_idx) :> (IF use_total_max THEN Blank ELSE Int2Num(30))
               @@ K("SUB_TH_MRKS", sub_idx) :>
                    (IF use_total_max /\ ~NotEmptyNone(th_marks) THEN Blank ELSE th_marks)
               @@ K("SUB_CE_MRKS", sub_idx) :>
                    (IF use_total_max /\ ~NotEmptyNone(ce_marks) THEN Blank ELSE ce_marks)
               @@ K("SUBNM", sub_idx) :> Str(sub_detail)
               @@ K("SUB", sub_idx) :> Str(sub_code)
               @@ K("SUB_PR_MAX", sub_idx) :> (IF use_total_max THEN total_max_marks ELSE Blank)
               @@ K("SUB_PR_MRKS", sub_idx) :> (IF use_total_max THEN calculated_total ELSE Blank)
               @@ K("SUB_TOT", sub_idx) :> calculated_total
               @@ K("SUB_PERCENT", sub_idx) :> percent
               @@ K("SUB_GRADE", sub_idx) :> Blank
               @@ K("SUB_GRADE_POINTS", sub_idx) :> Blank
               @@ K("SUB_CREDIT", sub_idx) :> Get(row, K("CH", sub_idx), Blank)
               @@ K("SUB_CREDIT_POINTS", sub_idx) :> Blank
               @@ K("SUB_TOTAL_MAX", sub_idx) :> (IF use_total_max THEN total_max_marks ELSE Blank)
        g == [f EXCEPT !.new_row = Put(f.new_row, upd),
                       !.theory_subjects =
                           Append(f.theory_subjects,
                                  [idx |-> sub_idx, tot |-> calculated_total,
                                   max |-> max_marks_for_calculation]),
                       !.subject_meta = MetaPut(f.subject_meta, sub_idx, "theory"),
                       !.subject_counter = sub_idx + 1,
                       !.raised = f.raised \/ IsErr(percent)]
    IN  IF sub_name = <<>> /\ sub_detail = <<>> THEN f
        ELSE LegacyPractical(g, row, i)

\* Lines 364-484: one iteration of the modern (CODP / SUBP) practical loop.
ModernIter(f, row, i) ==
    LET sub_code_p == Strip(PyStr(Get(row, K("CODP", i), Blank)))
        sub_detail_p == Strip(PyStr(Get(row, K("SUBP", i), Blank)))
        sub_idx == f.subject_counter
        eap_marks == Get(row, K("EAP", i), Blank)
        eap_max == Get(row, K("EAP_MAX", i), Blank)
        iap_marks == Get(row, K("IAP", i), Blank)
        iap_max == Get(row, K("IAP_MAX", i), Blank)
        p_total == Get(row, K("P", i), Blank)
        p_max == Get(row, K("P_MAX", i), Blank)
        has_separate_max ==
            NonBlankText(eap_max) \/ NonBlankText(iap_max) \/ NonBlankText(p_max)
        \* lines 390-417
        eap_val == MarkOrZero(eap_marks)
        iap_val == MarkOrZero(iap_marks)
        use_p == Truthy(p_total) /\ NonBlankText(p_total)
        tot_try == IF use_p THEN PyFloat(p_total)
                   ELSE [ok |-> TRUE, v |-> FAdd(eap_val.v, iap_val.v)]
        outer_ok == eap_val.ok /\ iap_val.ok /\ tot_try.ok
        p_max_try == FloatOrDefault(p_max, 200)
        eap_max_val == FloatOrDefault(eap_max, 0)
        iap_max_val == FloatOrDefault(iap_max, 0)
        max_sum == FAdd(eap_max_val.v, iap_max_val.v)
        total_max_try ==
            IF p_max_try.ok THEN p_max_try.v
            ELSE IF eap_max_val.ok /\ iap_max_val.ok
                 THEN (IF FGt(max_sum, Int2Num(0)) THEN max_sum ELSE Int2Num(200))
                 ELSE Int2Num(200)
        percent_try ==
            IF FGt(total_max_try, Int2Num(0))
            THEN FMul(FDiv(tot_try.v, total_max_try), Int2Num(100))
            ELSE tot_try.v
        calculated_total_m ==
            IF outer_ok THEN tot_try.v
            ELSE IF Truthy(p_total) THEN ToNumeric(p_total) ELSE Int2Num(0)
        total_max == IF outer_ok THEN total_max_try ELSE Int2Num(200)
        percent_marks == IF outer_ok THEN percent_try ELSE calculated_total_m
        upd_max ==
            K("SUBNM", sub_idx) :> Str(sub_detail_p)
            @@ K("SUB", sub_idx) :> Str(sub_code_p)
            @@ K("SUB_TH_MAX", sub_idx) :> (IF NonBlankText(eap_max) THEN eap_max ELSE Blank)
            @@ K("SUB_CE_MAX", sub_idx) :> (IF NonBlankText(iap_max) THEN iap_max ELSE Blank)
            @@ K("SUB_TH_MRKS", sub_idx) :>
                 (IF Strip(PyStr(eap_marks)) \notin {<<>>, <<"N", "o", "n", "e">>}
                  THEN eap_marks ELSE Blank)
            @@ K("SUB_CE_MRKS", sub_idx) :>
                 (IF Strip(PyStr(iap_marks)) \notin {<<>>, <<"N", "o", "n", "e">>}
                  THEN iap_marks ELSE Blank)
            @@ K("SUB_PR_MAX", sub_idx) :> (IF NonBlankText(p_max) THEN p_max ELSE total_max)
            @@ K("SUB_PR_MRKS", sub_idx) :> calculated_total_m
            @@ K("SUB_TOT", sub_idx) :> calculated_total_m
            @@ K("SUB_PERCENT", sub_idx) :> percent_marks
            @@ K("SUB_GRADE", sub_idx) :> Blank
            @@ K("SUB_GRADE_POINTS", sub_idx) :> Blank
            @@ K("SUB_CREDIT", sub_idx) :>
                 (IF K("CH", i + 2) \in DOMAIN row THEN row[K("CH", i + 2)]
                  ELSE Get(row, K("CHP", i), Blank))
            @@ K("SUB_CREDIT_POINTS", sub_idx) :> Blank
            @@ K("SUB_TOTAL_MAX", sub_idx) :> total_max
        \* lines 447-484
        total_p == Get(row, K("TP", i), Blank)
        calculated_total_n ==
            IF eap_val.ok /\ iap_val.ok THEN FAdd(eap_val.v, iap_val.v)
            ELSE ToNumeric(total_p)
        upd_nomax ==
            K("SUBNM", sub_idx) :> Str(sub_detail_p)
            @@ K("SUB", sub_idx) :> Str(sub_code_p)
            @@ K("SUB_TH_MAX", sub_idx) :> Int2Num(70)
            @@ K("SUB_CE_MAX", sub_idx) :> Int2Num(30)
            @@ K("SUB_TH_MRKS", sub_idx) :> eap_marks
            @@ K("SUB_CE_MRKS", sub_idx) :> iap_marks
            @@ K("SUB_PR_MAX", sub_idx) :> Blank
            @@ K("SUB_PR_MRKS", sub_idx) :> Blank
            @@ K("SUB_TOT", sub_idx) :> calculated_total_n
            @@ K("SUB_PERCENT", sub_idx) :> calculated_total_n
            @@ K("SUB_GRADE", sub_idx) :> Blank
            @@ K("SUB_GRADE_POINTS", sub_idx) :> Blank
            @@ K("SUB_CREDIT", sub_idx) :> Get(row, K("CHP", i), Blank)
            @@ K("SUB_CREDIT_POINTS", sub_idx) :> Blank
            @@ K("SUB_TOTAL_MAX", sub_idx) :> Blank
    IN  IF sub_code_p = <<>> /\ sub_detail_p = <<>> THEN f
        ELSE IF has_separate_max
        THEN [f EXCEPT !.new_row = Put(f.new_row, upd_max),
                       !.subject_meta = MetaPut(f.subject_meta, sub_idx, "practical_with_max"),
                       !.subject_counter = sub_idx + 1]
        ELSE [f EXCEPT !.new_row = Put(f.new_row, upd_nomax),
                       !.subject_meta = MetaPut(f.subject_meta, sub_idx, "practical_no_grace"),
                       !.subject_counter = sub_idx + 1]

\* Lines 487-568: one iteration of the project loop.
ProjectIter(f, row, i) ==
    LET proj_code == Strip(PyStr(Get(row, K("CODPROJ", i), Blank)))
        proj_name == Strip(PyStr(Get(row, K("SUBPROJ", i), Blank)))
        internal_marks == Get(row, K("IPROJ", i), Blank)
        external_marks == Get(row, K("EPROJ", i), Blank)
        total_proj_marks == Get(row, K("PROJ", i), Blank)
        proj_max_marks ==
            IF K("PROJMAX", i) \in DOMAIN row THEN row[K("PROJMAX", i)]
            ELSE IF K("PROJMAX ", i) \in DOMAIN row THEN row[K("PROJMAX ", i)]
            ELSE Blank
        project_credit == Get(row, K("CHPROJ", i), Blank)
        exists == \/ proj_code # <<>>
                  \/ proj_name # <<>>
                  \/ Strip(PyStr(internal_marks)) # <<>>
                  \/ Strip(PyStr(external_marks)) # <<>>
        sub_idx == f.subject_counter
        int_val == MarkOrZero(internal_marks)
        ext_val == MarkOrZero(external_marks)
        use_total == Truthy(total_proj_marks) /\ NonBlankText(total_proj_marks)
        tot_try == IF use_total THEN PyFloat(total_proj_marks)
                   ELSE [ok |-> TRUE, v |-> FAdd(int_val.v, ext_val.v)]
        calculated_total_proj ==
            IF int_val.ok /\ ext_val.ok /\ tot_try.ok THEN tot_try.v
            ELSE IF use_total /\ PyFloat(total_proj_marks).ok THEN PyFloat(total_proj_marks).v
            ELSE Int2Num(0)
        proj_max == IF FloatOrDefault(proj_max_marks, 200).ok
                    THEN FloatOrDefault(proj_max_marks, 200).v
                    ELSE Int2Num(200)
        percent_marks ==
            IF FGt(proj_max, Int2Num(0))
            THEN FMul(FDiv(calculated_total_proj, proj_max), Int2Num(100))
            ELSE calculated_total_proj
        upd == K("SUBNM", sub_idx) :>
                    (IF proj_name # <<>> THEN Str(proj_name) ELSE Str(<<"PROJECT">>))
               @@ K("SUB", sub_idx) :>
                    (IF proj_code # <<>> THEN Str(proj_code)
                     ELSE Str(<<"PROJ">> \o FormatInt(i)))
               @@ K("SUB_TH_MAX", sub_idx) :> Blank
               @@ K("SUB_CE_MAX", sub_idx) :> Str(<<"1", "5", "0">>)
               @@ K("SUB_TH_MRKS", sub_idx) :> Blank
               @@ K("SUB_CE_MRKS", sub_idx) :>
                    (IF Strip(PyStr(external_marks)) \notin {<<>>, <<"N", "o", "n", "e">>}
                     THEN external_marks ELSE Blank)
               @@ K("SUB_PR_MAX", sub_idx) :> Str(<<"5", "0">>)
               @@ K("SUB_PR_MRKS", sub_idx) :>
                    (IF Strip(PyStr(internal_marks)) \notin {<<>>, <<"N", "o", "n", "e">>}
                     THEN internal_marks ELSE Blank)
               @@ K("SUB_TOT", sub_idx) :> calculated_total_proj
               @@ K("SUB_PERCENT", sub_idx) :> percent_marks
               @@ K("SUB_GRADE", sub_idx) :> Blank
               @@ K("SUB_GRADE_POINTS", sub_idx) :> Blank
               @@ K("SUB_CREDIT", sub_idx) :> project_credit
               @@ K("SUB_CREDIT_POINTS", sub_idx) :> Blank
               @@ K("SUB_TOTAL_MAX", sub_idx) :> proj_max
    IN  IF ~exists THEN f
        ELSE [f EXCEPT !.new_row = Put(f.new_row, upd),
                       !.subject_meta = MetaPut(f.subject_meta, sub_idx, "project"),
                       !.subject_counter = sub_idx + 1]

\* Lines 571-583: one iteration of the due-paper loop.
DueIter(f, row, i) ==
    LET due_paper == Get(row, K("DP", i), None)
        sub_idx == f.subject_counter
        due_total == ToNumeric(Get(row, K("DPM", i), Blank))
        upd == K("SUBNM", sub_idx) :> Str(<<"DUE OF PREVIOUS SEM">>)
               @@ K("SUB", sub_idx) :> Str(Strip(PyStr(due_paper)))
               @@ K("SUB_CREDIT", sub_idx) :> Get(row, K("DCR", i), Blank)
               @@ K("SUB_TOT", sub_idx) :> (IF NotNa(due_total) THEN due_total ELSE Blank)
               @@ K("SUB_PERCENT", sub_idx) :> (IF NotNa(due_total) THEN due_total ELSE Blank)
               @@ K("REMARKS", 0) :> Get(row, K("DPR", i), Blank)
    IN  IF NotNa(due_paper)
           /\ Lower(Strip(PyStr(due_paper))) \notin {<<>>, <<"n", "a", "n">>, <<"n", "o", "n", "e">>}
        THEN [f EXCEPT !.new_row = Put(f.new_row, upd),
                       !.subject_meta = MetaPut(f.subject_meta, sub_idx, "due"),
                       !.subject_counter = sub_idx + 1]
        ELSE f

\* A variant of the theory loop in which every source index consumes an
\* output number, subject or not (to test C5).
RECURSIVE TheoryLoopCounting(_, _, _)
TheoryLoopCounting(f, row, i) ==
    IF i > MaxIdx THEN f
    ELSE LET g == TheoryIter(f, row, i)
         IN  TheoryLoopCounting(
                 [g EXCEPT !.subject_counter =
                               IF g.subject_counter = f.subject_counter
                               THEN f.subject_counter + 1 ELSE g.subject_counter],
                 row, i + 1)

\* for i in range(1, 20): the four extraction loops, each over 1..MaxIdx.
RECURSIVE TheoryLoop(_, _, _)
TheoryLoop(f, row, i) ==
    IF i > MaxIdx THEN f ELSE TheoryLoop(TheoryIter(f, row, i), row, i + 1)

RECURSIVE ModernLoop(_, _, _)
ModernLoop(f, row, i) ==
    IF i > MaxIdx THEN f ELSE ModernLoop(ModernIter(f, row, i), row, i + 1)

RECURSIVE ProjectLoop(_, _, _)
ProjectLoop(f, row, i) ==
    IF i > MaxIdx THEN f ELSE ProjectLoop(ProjectIter(f, row, i), row, i + 1)

RECURSIVE DueLoop(_, _, _)
DueLoop(f, row, i) ==
    IF i > MaxIdx THEN f ELSE DueLoop(DueIter(f, row, i), row, i + 1)

\* ------------------------------------------------------------- grace marks

\* Line 586: sum(max_marks for (_, _, max_marks) in theory_subjects)
RECURSIVE SumMax(_)
SumMax(ts) == IF ts = <<>> THEN Int2Num(0) ELSE FAdd(SumMax(SubSeq(ts, 1, Len(ts) - 1)), ts[Len(ts)].max)

\* Line 587: grace_limit = min(total_theory_max * 0.01, 6)
GraceLimit(ts) == PyMin(FMul(SumMax(ts), Num(1, 100)), Int2Num(6))

\* Lines 594-598: the percent of one theory subject as the failing test reads it.
TheoryPercent(t) ==
    IF FGt(t.max, Int2Num(0)) THEN FMul(FDiv(t.tot, t.max), Int2Num(100)) ELSE Int2Num(0)

\* Lines 593-600: the theory subjects below theory_passing, in list order.
RECURSIVE FailedSubjects(_, _)
FailedSubjects(ts, theory_passing_percent) ==
    IF ts = <<>> THEN <<>>
    ELSE LET t == Head(ts)
             rest == FailedSubjects(Tail(ts), theory_passing_percent)
         IN  IF FLt(TheoryPercent(t), Int2Num(theory_passing_percent))
             THEN <<[idx |-> t.idx, marks |-> t.tot, max |-> t.max, type |-> "theory"]>> \o rest
             ELSE rest

\* Lines 605-607 and 652-653: max(0, (min_percent * max_marks) - marks)
Needed(fs, theory_passing_percent) ==
    PyMax(Int2Num(0), FSub(FMul(Num(theory_passing_percent, 100), fs.max), fs.marks))

\* Lines 603-607: the total shortfall of the failed subjects.
RECURSIVE Shortfall(_, _)
Shortfall(failed, theory_passing_percent) ==
    IF failed = <<>> THEN Int2Num(0)
    ELSE FAdd(Shortfall(SubSeq(failed, 1, Len(failed) - 1), theory_passing_percent),
              Needed(failed[Len(failed)], theory_passing_percent))

GraceText(n) == Str(<<"G", "-">> \o FormatInt(n))

\* A variant that opens a grace annotation on every block (to test C6).
InitGraceEveryBlock(new_row, meta) ==
    Put(new_row, [key \in {K("SUB_GRACE", meta[j][1]) : j \in 1..Len(meta)} |-> GraceText(0)])

\* Lines 610-612: new_row[f"SUB{idx}_GRACE"] = "G-0" for every theory subject.
InitGrace(new_row, meta) ==
    Put(new_row,
        [key \in {K("SUB_GRACE", meta[j][1]) : j \in {h \in 1..Len(meta) : meta[h][2] = "theory"}}
            |-> GraceText(0)])

\* Lines 586-612.
GraceCalc(f, cfg) ==
    LET failed == FailedSubjects(f.theory_subjects, cfg.theory_passing)
        sf == Shortfall(failed, cfg.theory_passing)
    IN  [f EXCEPT !.grace_limit = GraceLimit(f.theory_subjects),
                  !.failed_subjects = failed,
                  !.shortfall = sf,
                  !.new_row = InitGrace(f.new_row, f.subject_meta),
                  !.raised = f.raised \/ IsErr(sf)]

\* Lines 615-641: the aggregate gate.  Whatever raises inside the try (float
\* of a text that is no number, a text divided by a number, the debug print
\* of a percent that was never bound) ends in the except branch, which
\* allows grace.
AllowGrace(row, cfg) ==
    LET gmax == PyFloat(Get(row, K("GTOT_MAX", 0), Int2Num(0)))
        grand_total_marks == Get(row, K("GTOT", 0), Blank)
        percent == FMul(FDiv(grand_total_marks, gmax.v), Int2Num(100))
    IN  IF ~gmax.ok THEN TRUE
        ELSE IF FGt(gmax.v, Int2Num(0))
             THEN (IF IsErr(percent) THEN TRUE
                   ELSE FGe(percent, Int2Num(cfg.aggregate_passing)))
        ELSE TRUE

\* A variant of the gate without its try / except (to test C4).
GraceGateUnguarded(f, row, cfg) ==
    LET gmax == PyFloat(Get(row, K("GTOT_MAX", 0), Int2Num(0)))
        percent == FMul(FDiv(Get(row, K("GTOT", 0), Blank), gmax.v), Int2Num(100))
    IN  [f EXCEPT !.allow_grace = AllowGrace(row, cfg),
                  !.raised = f.raised \/ ~gmax.ok \/ IsErr(percent)]

GraceGate(f, row, cfg) == [f EXCEPT !.allow_grace = AllowGrace(row, cfg)]

\* Lines 647-657: the failed subjects in order, the limit running down.
RECURSIVE DistributeFrom(_, _, _, _, _)
DistributeFrom(new_row, failed, meta, limit, theory_passing_percent) ==
    IF failed = <<>> THEN new_row
    ELSE LET fs == Head(failed)
             skip == MetaKind(meta, fs.idx) \in
                        {"practical_no_grace", "practical", "practical_with_max", "project"}
             needed == Needed(fs, theory_passing_percent)
             give == ~skip /\ FGt(needed, Int2Num(0)) /\ FGt(limit, Int2Num(0))
             grace_given == PyMin(needed, limit)
         IN  IF give
             THEN DistributeFrom(
                      Put(new_row, K("SUB_GRACE", fs.idx) :> GraceText(RoundHalfEven(grace_given))),
                      Tail(failed), meta, FSub(limit, grace_given), theory_passing_percent)
             ELSE DistributeFrom(new_row, Tail(failed), meta, limit, theory_passing_percent)

\* A variant that distributes grace whatever the shortfall (to test C8).
DistributeWithoutShortfallTest(f, cfg) ==
    IF f.allow_grace
    THEN [f EXCEPT !.new_row = DistributeFrom(f.new_row, f.failed_subjects, f.subject_meta,
                                              f.grace_limit, cfg.theory_passing)]
    ELSE f

\* Lines 646-657.  (The frame keeps the limit of line 587; the running limit
\* that line 657 decrements is the fourth argument of DistributeFrom.)
Distribute(f, cfg) ==
    IF f.allow_grace /\ FLe(f.shortfall, f.grace_limit)
    THEN [f EXCEPT !.new_row = DistributeFrom(f.new_row, f.failed_subjects, f.subject_meta,
                                              f.grace_limit, cfg.theory_passing)]
    ELSE f

\* ------------------------------------------------------- grades and result

\* Lines 666-674: the number in a grace annotation "G-n", 0 for anything else.
GraceVal(g) ==
    IF IsStr(g) /\ Len(g.s) >= 2 /\ g.s[1] = "G" /\ g.s[2] = "-"
    THEN (IF ParseFloat(SubSeq(g.s, 3, Len(g.s))).ok
          THEN ParseFloat(SubSeq(g.s, 3, Len(g.s))).v ELSE Int2Num(0))
    ELSE Int2Num(0)

\* Lines 682-691: the percent a subject is graded on.  For a theory subject
\* with grace the grace is added as a percent of TH_MAX + CE_MAX of the block;
\* when that fails (a blank TH_MAX cannot be read as a float) the except
\* branch leaves the percent as it was.
GradedPercent(new_row, idx, kind, grace_val) ==
    LET percent_marks == Get(new_row, K("SUB_PERCENT", idx), Blank)
        th_max == PyFloat(Get(new_row, K("SUB_TH_MAX", idx), Int2Num(100)))
        ce_max == PyFloat(Get(new_row, K("SUB_CE_MAX", idx), Int2Num(0)))
        total_max == IF FGt(ce_max.v, Int2Num(0)) THEN FAdd(th_max.v, ce_max.v)
                     ELSE Int2Num(100)
        grace_percent == FMul(FDiv(grace_val, total_max), Int2Num(100))
        added == FAdd(PyFloat(percent_marks).v, grace_percent)
    IN  IF kind = "theory" /\ FGt(grace_val, Int2Num(0))
        THEN (IF th_max.ok /\ ce_max.ok /\ PyFloat(percent_marks).ok /\ ~IsErr(added)
              THEN added ELSE percent_marks)
        ELSE percent_marks

\* Line 694
IsPractical(kind) == kind \in {"practical", "practical_with_max", "project"}

\* Lines 663-713: one iteration of the grading loop, for the subject idx.
GradeIter(f, idx, kind, cfg) ==
    LET grace_val == GraceVal(Get(f.new_row, K("SUB_GRACE", idx), Blank))
        grace_out == IF FGt(grace_val, Int2Num(0))
                     THEN GraceText(grace_val.n \div grace_val.d) ELSE Blank
        percent_marks == GradedPercent(f.new_row, idx, kind, grace_val)
        res == compute_grade_and_points(percent_marks, IsPractical(kind), cfg)
        cr == PyFloat(Get(f.new_row, K("SUB_CREDIT", idx), Int2Num(0)))
        credit == IF cr.ok THEN cr.v ELSE Int2Num(0)
        credit_points == FMul(Int2Num(res.gp), credit)
        upd == K("SUB_GRACE", idx) :> grace_out
               @@ K("SUB_GRADE", idx) :> Str(res.grade)
               @@ K("SUB_GRADE_POINTS", idx) :> Int2Num(res.gp)
               @@ K("SUB_CREDIT_POINTS", idx) :> credit_points
    IN  [f EXCEPT !.new_row = Put(f.new_row, upd),
                  !.total_credits = FAdd(f.total_credits, credit),
                  !.total_credit_points = FAdd(f.total_credit_points, credit_points)]

\* for sub_idx in subject_meta: the items in insertion order.
RECURSIVE GradeLoop(_, _, _)
GradeLoop(f, j, cfg) ==
    IF j > Len(f.subject_meta) THEN f
    ELSE GradeLoop(GradeIter(f, f.subject_meta[j][1], f.subject_meta[j][2], cfg), j + 1, cfg)

\* Lines 716-741: SGPA and the overall result.
Finish(f, cfg) ==
    LET sgpa == FDiv(f.total_credit_points, f.total_credits)
        grand_tot_marks == PyFloat(Get(f.new_row, K("GRAND_TOT_MRKS", 0), Int2Num(0)))
        grand_tot_max == PyFloat(Get(f.new_row, K("GRAND_TOT_MAX", 0), Int2Num(0)))
        percent == FMul(FDiv(grand_tot_marks.v, grand_tot_max.v), Int2Num(100))
        result == IF grand_tot_marks.ok /\ grand_tot_max.ok /\ FGt(grand_tot_max.v, Int2Num(0))
                  THEN K("RESULT", 0) :>
                         (IF FGe(percent, Int2Num(cfg.aggregate_passing)) /\ FGe(sgpa, Int2Num(4))
                          THEN Str(<<"PASS">>) ELSE Str(<<"FAIL">>))
                  ELSE <<>>
        upd_pos == K("TOT_CREDIT", 0) :> f.total_credits
                   @@ K("TOT_CREDIT_POINTS", 0) :> f.total_credit_points
                   @@ K("SGPA", 0) :> Round2(sgpa)
        upd_zero == K("TOT_CREDIT", 0) :> Int2Num(0)
                    @@ K("TOT_CREDIT_POINTS", 0) :> Int2Num(0)
                    @@ K("SGPA", 0) :> Int2Num(0)
    IN  IF FGt(f.total_credits, Int2Num(0))
        THEN [f EXCEPT !.new_row = Put(Put(f.new_row, upd_pos), result),
                       !.raised = f.raised \/ IsErr(sgpa)]
        ELSE [f EXCEPT !.new_row = Put(f.new_row, upd_zero)]

\* transform_row(row, scheme_config): the frame at the return.
TransformRow(row, cfg) ==
    LET f1 == DueLoop(ProjectLoop(ModernLoop(TheoryLoop(StartRow(row), row, 1), row, 1), row, 1), row, 1)
        f2 == Distribute(GraceGate(GraceCalc(f1, cfg), row, cfg), cfg)
    IN  Finish(GradeLoop(f2, 1, cfg), cfg)

\* ------------------------------------------------------------- the inputs

D(n) == Int2Num(n)

\* A text that is no number.  As a field of source index i it is written
\* "x" followed by i, so that an output block shows the index it came from.
X == Str(<<"x">>)

Tagged(i) == Str(<<"x", Digits[i + 1]>>)

\* The fields of one source index: the profile's names, indexed by i.
At(i, prof) ==
    [key \in {K(name, i) : name \in DOMAIN prof} |->
        IF prof[key[1]] = X THEN Tagged(i) ELSE prof[key[1]]]

Empty == [key \in {} |-> Blank]

\* Theory subjects: default maxima (EA + IA out of 100) and override maxima
\* (T out of T_MAX); whole, fractional, textual, absent and unreadable marks.
TheoryProfiles ==
    { ("TIT" :> X) @@ ("EA" :> D(32)) @@ ("IA" :> D(28)),
      ("TIT" :> X) @@ ("EA" :> D(20)) @@ ("IA" :> D(10)),
      ("SUB" :> X) @@ ("COD" :> X) @@ ("EA" :> D(35)) @@ ("IA" :> Blank),
      ("TIT" :> X) @@ ("EA" :> Num(344, 10)),
      ("TIT" :> X) @@ ("EA" :> Num(356, 10)),
      ("TIT" :> X) @@ ("EA" :> D(36)) @@ ("IA" :> D(0)),
      ("TIT" :> X) @@ ("EA" :> D(70)) @@ ("IA" :> D(25)),
      ("TIT" :> X) @@ ("EA" :> Str(AB)) @@ ("IA" :> D(10)),
      ("TIT" :> X) @@ ("EA" :> X) @@ ("IA" :> D(10)) @@ ("T" :> D(45)),
      ("TIT" :> X) @@ ("EA" :> NaN) @@ ("IA" :> NaN) @@ ("T_MAX" :> NaN),
      ("TIT" :> X) @@ ("EA" :> Str(<<"3", "5">>)) @@ ("IA" :> Str(<<" ", "1">>)),
      ("TIT" :> NaN) @@ ("SUB" :> NaN) @@ ("EA" :> D(50)) @@ ("IA" :> D(20)),
      ("TIT" :> X) @@ ("T_MAX" :> D(64)) @@ ("T" :> D(25)),
      ("TIT" :> X) @@ ("T_MAX" :> D(160)) @@ ("T" :> Num(5605, 100)),
      ("TIT" :> X) @@ ("T_MAX" :> D(400)) @@ ("T" :> D(300)),
      ("TIT" :> X) @@ ("T_MAX" :> D(200)) @@ ("T" :> D(78)),
      ("TIT" :> X) @@ ("T_MAX" :> NaN) @@ ("T" :> D(70)) @@ ("EA" :> D(40)) @@ ("IA" :> D(20)),
      ("TIT" :> X) @@ ("T_MAX" :> D(0)) @@ ("T" :> D(10)) @@ ("EA" :> D(20)),
      ("TIT" :> X) @@ ("T_MAX" :> D(100)) @@ ("T" :> D(35)) @@ ("EA" :> D(35)),
      ("TIT" :> X) @@ ("T_MAX" :> X) @@ ("T" :> D(30)) @@ ("EA" :> D(20)),
      ("TIT" :> X) @@ ("T_MAX" :> D(50)) @@ ("T" :> Blank),
      ("TIT" :> X) @@ ("T_MAX" :> Str(<<"0">>)) @@ ("T" :> D(10)) }

PlainTheory == ("TIT" :> X) @@ ("COD" :> X) @@ ("EA" :> D(32)) @@ ("IA" :> D(28))

\* Legacy practicals: PRSUB with the combined field P.
LegacyProfiles ==
    { ("PRSUB" :> X) @@ ("PR" :> X) @@ ("P" :> Str(<<"1", "8", "/", "2", "0">>)),
      ("PRSUB" :> X) @@ ("P" :> D(45)),
      ("PRSUB" :> X) @@ ("P" :> X),
      ("PRSUB" :> X) @@ ("P" :> Str(<<"1", "8", "/", "0">>)),
      ("PRSUB" :> X) @@ ("P" :> Str(<<"7", "/", "x">>)),
      ("PRSUB" :> X) @@ ("P" :> Str(<<" ", "1", "5", " ", "/", " ", "5", "0">>)),
      ("PRSUB" :> X) @@ ("P" :> Str(<<"1", "/", "3">>)),
      ("PRSUB" :> X),
      ("PRSUB" :> NaN) @@ ("P" :> D(45)) }

\* Modern practicals: CODP / SUBP with or without maxima.
ModernProfiles ==
    { ("CODP" :> X) @@ ("EAP" :> D(40)) @@ ("IAP" :> D(20)) @@ ("CHP" :> D(2)),
      ("CODP" :> X) @@ ("EAP" :> D(40)) @@ ("IAP" :> D(20)) @@ ("EAP_MAX" :> D(60))
          @@ ("IAP_MAX" :> D(40)),
      ("SUBP" :> X) @@ ("P" :> D(150)) @@ ("P_MAX" :> D(200)) @@ ("CHP" :> D(2)),
      ("CODP" :> X) @@ ("EAP" :> X) @@ ("TP" :> D(55)),
      ("CODP" :> X) @@ ("EAP" :> D(28)) @@ ("IAP" :> D(10)) @@ ("CHP" :> D(2)),
      ("CODP" :> X) @@ ("EAP" :> D(40)) @@ ("P_MAX" :> X) @@ ("EAP_MAX" :> D(60))
          @@ ("IAP_MAX" :> D(40)),
      ("CODP" :> X) @@ ("P" :> X) @@ ("P_MAX" :> D(100)),
      ("CODP" :> X) @@ ("EAP" :> Str(AB)) @@ ("IAP" :> D(20)) @@ ("P_MAX" :> D(50)),
      ("SUBP" :> X) @@ ("EAP" :> NaN) @@ ("IAP" :> NaN) @@ ("EAP_MAX" :> NaN),
      ("CODP" :> X) @@ ("EAP" :> X) @@ ("P" :> D(150)) @@ ("P_MAX" :> D(200))
          @@ ("CHP" :> D(2)) }

\* Projects.
ProjectProfiles ==
    { ("CODPROJ" :> X) @@ ("IPROJ" :> D(40)) @@ ("EPROJ" :> D(120)),
      ("SUBPROJ" :> X) @@ ("PROJ" :> D(90)) @@ ("PROJMAX" :> D(100)) @@ ("CHPROJ" :> D(4)),
      ("IPROJ" :> D(30)),
      ("CODPROJ" :> X) @@ ("IPROJ" :> X) @@ ("PROJ" :> X),
      ("CODPROJ" :> X) @@ ("IPROJ" :> Str(AB)) @@ ("EPROJ" :> D(50)) @@ ("PROJMAX" :> X),
      ("IPROJ" :> NaN) @@ ("EPROJ" :> NaN),
      ("CODPROJ" :> X) @@ ("IPROJ" :> D(10)) @@ ("PROJMAX" :> D(0)),
      ("CODPROJ" :> X) @@ ("EPROJ" :> D(60)) @@ ("PROJMAX " :> D(80)) }

\* Due papers.
DueProfiles ==
    { ("DP" :> X) @@ ("DPM" :> D(45)) @@ ("DCR" :> D(2)) @@ ("DPR" :> X),
      ("DP" :> X) @@ ("DPM" :> Blank),
      ("DP" :> X) @@ ("DPM" :> X) @@ ("DCR" :> D(2)),
      ("DP" :> NaN) @@ ("DPM" :> D(45)),
      ("DP" :> Str(<<"n", "a", "n">>)),
      ("DP" :> D(101)) @@ ("DPM" :> Str(<<"4", "0">>)) }

\* What one source index may hold: nothing, one kind, or several kinds.
TheorySlots == {Empty} \cup {tp @@ ("COD" :> X) : tp \in TheoryProfiles}

FailingTheory == ("TIT" :> X) @@ ("COD" :> X) @@ ("EA" :> D(20)) @@ ("IA" :> D(10))

PlainProject == ("CODPROJ" :> X) @@ ("IPROJ" :> D(40)) @@ ("EPROJ" :> D(120))

PlainDue == ("DP" :> X) @@ ("DPM" :> D(45))

Slots ==
    TheorySlots
    \cup {lp @@ PlainTheory : lp \in LegacyProfiles}
    \cup LegacyProfiles
    \cup ModernProfiles
    \cup ProjectProfiles
    \cup DueProfiles
    \cup {PlainProject @@ PlainDue @@ mp @@ lp @@ PlainTheory :
            mp \in {("CODP" :> X) @@ ("EAP" :> D(40)) @@ ("IAP" :> D(20)),
                    ("CODP" :> X) @@ ("P_MAX" :> D(50))},
            lp \in {("PRSUB" :> X) @@ ("P" :> D(45)), Empty}}

\* The second occupied index holds one of a few representative subjects.
SecondTheorySlots ==
    { Empty, PlainTheory, FailingTheory,
      ("SUB" :> X) @@ ("COD" :> X) @@ ("EA" :> D(35)) @@ ("IA" :> Blank),
      ("TIT" :> X) @@ ("EA" :> Num(344, 10)),
      ("TIT" :> X) @@ ("T_MAX" :> D(64)) @@ ("T" :> D(25)),
      ("TIT" :> X) @@ ("T_MAX" :> D(400)) @@ ("T" :> D(300)) }

SecondSlots ==
    { Empty, PlainTheory, FailingTheory,
      ("PRSUB" :> X) @@ ("P" :> Str(<<"1", "8", "/", "2", "0">>)) @@ PlainTheory,
      ("PRSUB" :> X) @@ ("P" :> D(45)),
      ("CODP" :> X) @@ ("EAP" :> D(20)) @@ ("IAP" :> D(10)),
      ("SUBP" :> X) @@ ("P" :> D(150)) @@ ("P_MAX" :> D(200)) @@ ("CHP" :> D(2)),
      PlainProject, PlainDue,
      PlainProject @@ PlainDue @@ (("CODP" :> X) @@ ("P_MAX" :> D(50)))
          @@ (("PRSUB" :> X) @@ ("P" :> D(45))) @@ PlainTheory }

\* The fields that carry no index: the grand total and its maximum, as
\* numbers, as texts, as empty cells and left out, with credit hours that are
\* whole, fractional, textual, empty cells, unreadable and negative.
PlainRowLevel ==
    (K("GTOT", 0) :> D(300)) @@ (K("GTOT_MAX", 0) :> D(600)) @@ (K("CH", 1) :> D(4))
        @@ (K("CH", 2) :> D(3))

RowLevel ==
    { PlainRowLevel,
      (K("GTOT", 0) :> D(200)) @@ (K("GTOT_MAX", 0) :> D(600)) @@ (K("CH", 1) :> D(4))
          @@ (K("CH", 2) :> D(3)) @@ (K("CH", 3) :> D(2)),
      (K("GTOT", 0) :> D(240)) @@ (K("GTOT_MAX", 0) :> D(600)) @@ (K("CH", 1) :> X),
      (K("GTOT", 0) :> Str(<<"2", "0", "0">>)) @@ (K("GTOT_MAX", 0) :> D(600))
          @@ (K("CH", 1) :> D(4)),
      (K("GTOT", 0) :> D(200)) @@ (K("GTOT_MAX", 0) :> Str(<<"6", "0", "0">>))
          @@ (K("CH", 1) :> D(4)),
      (K("GTOT", 0) :> D(200)) @@ (K("CH", 1) :> D(4)) @@ (K("RESULT", 0) :> X),
      (K("GTOT", 0) :> D(200)) @@ (K("GTOT_MAX", 0) :> Blank) @@ (K("CH", 1) :> D(4)),
      (K("GTOT", 0) :> Str(<<"2", "5", "0", "/", "6", "0", "0">>))
          @@ (K("GTOT_MAX", 0) :> D(600)) @@ (K("TTOT", 0) :> D(600)) @@ (K("CH", 1) :> D(4)),
      (K("GTOT", 0) :> NaN) @@ (K("GTOT_MAX", 0) :> D(600)) @@ (K("CH", 1) :> D(4)),
      (K("GTOT", 0) :> Str(<<"2", "5", "0", "/", "5", "0", "0">>)) @@ (K("CH", 1) :> D(4)),
      (K("GTOT", 0) :> D(200)) @@ (K("GTOT_MAX", 0) :> NaN) @@ (K("CH", 1) :> NaN),
      (K("GTOT", 0) :> D(300)) @@ (K("GTOT_MAX", 0) :> D(600)) @@ (K("CH", 1) :> NaN)
          @@ (K("CH", 2) :> D(3)),
      (K("GTOT", 0) :> D(300)) @@ (K("GTOT_MAX", 0) :> D(600)) @@ (K("CH", 1) :> D(3))
          @@ (K("CH", 2) :> D(0 - 1)),
      (K("GTOT", 0) :> D(300)) @@ (K("GTOT_MAX", 0) :> D(600))
          @@ (K("CH", 1) :> Str(<<"4">>)) @@ (K("CH", 2) :> Num(5, 2)),
      (K("GTOT", 0) :> D(300)) @@ (K("GTOT_MAX", 0) :> D(600))
          @@ (K("RESULT", 0) :> Str(<<"PASS">>)) }

\* The raw records of the model: at most two of the source indices hold
\* fields.  GraceRows vary the theory marks against every grand total;
\* KindRows vary the kinds of subject under one grand total.
GraceRows ==
    {At(a, s1) @@ At(b, s2) @@ rl :
        a \in 1..(MaxIdx - 1), b \in 2..MaxIdx, s1 \in TheorySlots,
        s2 \in SecondTheorySlots, rl \in RowLevel}

KindRows ==
    {At(a, s1) @@ At(b, s2) @@ PlainRowLevel :
        a \in 1..(MaxIdx - 1), b \in 2..MaxIdx, s1 \in Slots, s2 \in SecondSlots}

GraceSchemes == {"scheme1", "scheme3", "scheme7"}

KindSchemes == {"scheme1", "scheme3"}

\* The inputs of the batch driver.
UnlistedCourses == {"", "bca", "BCA ", "B.A", "M.Sc. AGRICULTURE"}

ListedCourses ==
    UNION {{SCHEME_CONFIG[s].courses[j] : j \in 1..Len(SCHEME_CONFIG[s].courses)} :
              s \in DOMAIN SCHEME_CONFIG}

MaxRows == 2

BatchRows ==
    { At(1, PlainTheory) @@ PlainRowLevel,
      At(1, FailingTheory) @@ At(2, PlainDue) @@ PlainRowLevel,
      At(2, PlainProject) @@ PlainRowLevel }

Batches == UNION {[1..n -> BatchRows] : n \in 0..MaxRows}

\* The upload handed to the endpoint.
Uploads == {"readable", "no name", "unsupported", "unreadable"}

\* The arguments of one call of compute_grade_and_points.
MaxHalves == 220

GradePercents ==
    {Num(h, 2) : h \in 0..MaxHalves}
    \cup {Num(0 - 1, 2), Num(3599, 100), Num(905, 10), NaN, Inf, NegInf, None}
    \cup {Str(t) : t \in {AB, <<"a", "b">>, <<" ", "A", "b", " ">>, <<>>, <<"x">>,
                          <<"A", "B", "C">>, <<"6", "0">>, <<" ", "6", "0", ".", "5">>,
                          <<"-", "5">>, <<"n", "a", "n">>, <<"6", "0", "%">>}}

NoConfig == [theory_passing |-> 0, practical_passing |-> 0, aggregate_passing |-> 0,
             courses |-> <<>>]

\* ------------------------------------------------------------------- state

VARIABLES
    course,         \* the course name given to the batch driver
    upload,         \* the uploaded file as the endpoint finds it
    df,             \* the batch: the sequence of raw records read from the file
    caller,         \* who called transform_dataframe: the endpoint or a direct caller
    bpc,            \* where the batch driver stands
    scheme_name,    \* the scheme name the course resolved to
    scheme_config,  \* the configuration the course resolved to
    transformed,    \* the output records built so far
    calls,          \* the positions of df on which transform_row was invoked
    row,            \* transform_row: the raw record
    scheme,         \* transform_row: the name of the scheme configuration
    pc,             \* transform_row: the section about to run
    tr,             \* transform_row: its locals (the frame)
    percent_marks,  \* compute_grade_and_points: first argument
    is_practical,   \* compute_grade_and_points: second argument
    grade_scheme,   \* compute_grade_and_points: the scheme passed, or "None"
    gpc,            \* compute_grade_and_points: called or returned
    grade_ret       \* compute_grade_and_points: the value returned

batch_vars == <<course, upload, df, caller, bpc, scheme_name, scheme_config, transformed, calls>>

row_vars == <<row, scheme, pc, tr>>

grade_vars == <<percent_marks, is_practical, grade_scheme, gpc, grade_ret>>

vars == <<batch_vars, row_vars, grade_vars>>

NoReturn == [grade |-> <<>>, gp |-> 0 - 1]

BatchIdle ==
    /\ course = "" /\ upload = "" /\ df = <<>> /\ caller = "" /\ bpc = "idle"
    /\ scheme_name = "" /\ scheme_config = NoConfig /\ transformed = <<>> /\ calls = <<>>

RowIdle == row = Empty /\ scheme = "" /\ pc = "idle" /\ tr = StartRow(Empty)

GradeIdle ==
    /\ percent_marks = None /\ is_practical = FALSE /\ grade_scheme = "" /\ gpc = "idle"
    /\ grade_ret = NoReturn

\* ---------------------------------------------- transform_row, step by step

Init ==
    /\ \/ row \in GraceRows /\ scheme \in GraceSchemes
       \/ row \in KindRows /\ scheme \in KindSchemes
    /\ pc = "theory"
    /\ tr = StartRow(row)
    /\ BatchIdle
    /\ GradeIdle

Step(at, next, f) ==
    /\ pc = at
    /\ pc' = next
    /\ tr' = f
    /\ UNCHANGED <<row, scheme, batch_vars, grade_vars>>

ProcessTheory == Step("theory", "modern", TheoryLoop(tr, row, 1))

ProcessModern == Step("modern", "project", ModernLoop(tr, row, 1))

ProcessProject == Step("project", "due", ProjectLoop(tr, row, 1))

\* A variant of the due loop that removes the due fields it has read from the
\* raw record (to test C16).
ProcessDueConsuming ==
    /\ pc = "due"
    /\ pc' = "grace"
    /\ tr' = DueLoop(tr, row, 1)
    /\ row' = [key \in {q \in DOMAIN row : q[1] # "DP"} |-> row[key]]
    /\ UNCHANGED <<scheme, batch_vars, grade_vars>>

ProcessDue == Step("due", "grace", DueLoop(tr, row, 1))

ComputeGrace == Step("grace", "gate", GraceCalc(tr, SCHEME_CONFIG[scheme]))

CheckGate == Step("gate", "distribute", GraceGate(tr, row, SCHEME_CONFIG[scheme]))

DistributeGrace == Step("distribute", "grade", Distribute(tr, SCHEME_CONFIG[scheme]))

Grade == Step("grade", "finish", GradeLoop(tr, 1, SCHEME_CONFIG[scheme]))

Return == Step("finish", "done", Finish(tr, SCHEME_CONFIG[scheme]))

Next ==
    \/ ProcessTheory
    \/ ProcessModern
    \/ ProcessProject
    \/ ProcessDue
    \/ ComputeGrace
    \/ CheckGate
    \/ DistributeGrace
    \/ Grade
    \/ Return

Spec == Init /\ [][Next]_vars

\* ------------------------------------- transform_marks, transform_dataframe

InitBatch ==
    /\ course \in ListedCourses \cup UnlistedCourses
    /\ df \in Batches
    /\ \/ caller = "transform_marks" /\ upload \in Uploads /\ bpc = "validate"
       \/ caller = "direct" /\ upload = "" /\ bpc = "resolve"
    /\ scheme_name = "" /\ scheme_config = NoConfig /\ transformed = <<>> /\ calls = <<>>
    /\ RowIdle
    /\ GradeIdle

\* What an exception leaving transform_dataframe becomes: the endpoint turns
\* it into HTTP 500, a direct caller receives it.
Propagated(exception) == IF caller = "transform_marks" THEN "HTTP 500" ELSE exception

\* transform_marks: "Validate course".
ValidateCourse ==
    /\ bpc = "validate"
    /\ LET r == get_scheme_for_course(course)
       IN  IF r.found
           THEN /\ scheme_name' = r.scheme_name
                /\ scheme_config' = SCHEME_CONFIG[r.scheme_name]
                /\ bpc' = "read"
           ELSE /\ bpc' = "HTTP 400"
                /\ UNCHANGED <<scheme_name, scheme_config>>
    /\ UNCHANGED <<course, upload, df, caller, transformed, calls, row_vars, grade_vars>>

\* transform_marks: the upload is checked, read and found non-empty.  The
\* HTTPException of an unsupported extension is raised inside the try and
\* caught by its own except Exception.
ReadUpload ==
    /\ bpc = "read"
    /\ bpc' = IF upload = "no name" THEN "HTTP 400"
              ELSE IF upload \in {"unsupported", "unreadable"} THEN "HTTP 500"
              ELSE IF Len(df) = 0 THEN "HTTP 400"
              ELSE "resolve"
    /\ UNCHANGED <<course, upload, df, caller, scheme_name, scheme_config, transformed,
                   calls, row_vars, grade_vars>>

\* A variant that goes on with scheme1 when the course is unknown (to test C3).
ResolveSchemeLenient ==
    /\ bpc = "resolve"
    /\ LET r == get_scheme_for_course(course)
           name == IF r.found THEN r.scheme_name ELSE "scheme1"
       IN  /\ scheme_name' = name
           /\ scheme_config' = SCHEME_CONFIG[name]
           /\ bpc' = "rows"
    /\ UNCHANGED <<course, upload, df, caller, transformed, calls, row_vars, grade_vars>>

\* transform_dataframe: the course is resolved.
ResolveScheme ==
    /\ bpc = "resolve"
    /\ LET r == get_scheme_for_course(course)
       IN  IF r.found
           THEN /\ scheme_name' = r.scheme_name
                /\ scheme_config' = SCHEME_CONFIG[r.scheme_name]
                /\ bpc' = "rows"
           ELSE /\ bpc' = Propagated("ValueError")
                /\ UNCHANGED <<scheme_name, scheme_config>>
    /\ UNCHANGED <<course, upload, df, caller, transformed, calls, row_vars, grade_vars>>

\* A variant of the call that keeps the subject counter of the previous call
\* (to test C15).
CallTransformRowKeepingCounter ==
    /\ bpc = "rows"
    /\ Len(calls) < Len(df)
    /\ LET i == Len(calls) + 1
       IN  /\ calls' = Append(calls, i)
           /\ row' = df[i]
           /\ tr' = [StartRow(df[i]) EXCEPT !.subject_counter = tr.subject_counter]
    /\ scheme' = scheme_name
    /\ pc' = "theory"
    /\ bpc' = "transform_row"
    /\ UNCHANGED <<course, upload, df, caller, scheme_name, scheme_config, transformed,
                   grade_vars>>

\* transform_dataframe: one turn of the list comprehension over
\* df.iterrows() calls transform_row(row.to_dict(), scheme_config) ...
CallTransformRow ==
    /\ bpc = "rows"
    /\ Len(calls) < Len(df)
    /\ LET i == Len(calls) + 1
       IN  /\ calls' = Append(calls, i)
           /\ row' = df[i]
           /\ tr' = StartRow(df[i])
    /\ scheme' = scheme_name
    /\ pc' = "theory"
    /\ bpc' = "transform_row"
    /\ UNCHANGED <<course, upload, df, caller, scheme_name, scheme_config, transformed,
                   grade_vars>>

\* ... and collects the record it returns; an exception leaving transform_row
\* leaves transform_dataframe too.
CollectRow ==
    /\ bpc = "transform_row"
    /\ pc = "done"
    /\ IF tr.raised
       THEN bpc' = Propagated("raised") /\ UNCHANGED transformed
       ELSE bpc' = "rows" /\ transformed' = Append(transformed, tr.new_row)
    /\ pc' = "idle"
    /\ UNCHANGED <<course, upload, df, caller, scheme_name, scheme_config, calls, row,
                   scheme, tr, grade_vars>>

\* transform_dataframe: the frame of the transformed records is returned.
ReturnFrame ==
    /\ bpc = "rows"
    /\ Len(calls) = Len(df)
    /\ bpc' = IF caller = "transform_marks" THEN "respond" ELSE "returned"
    /\ UNCHANGED <<course, upload, df, caller, scheme_name, scheme_config, transformed,
                   calls, row_vars, grade_vars>>

\* transform_marks: the CSV response.
Respond ==
    /\ bpc = "respond"
    /\ bpc' = "HTTP 200"
    /\ UNCHANGED <<course, upload, df, caller, scheme_name, scheme_config, transformed,
                   calls, row_vars, grade_vars>>

NextBatch ==
    \/ ValidateCourse
    \/ ReadUpload
    \/ ResolveScheme
    \/ CallTransformRow
    \/ Next
    \/ CollectRow
    \/ ReturnFrame
    \/ Respond

SpecBatch == InitBatch /\ [][NextBatch]_vars

\* ------------------------------------------------- compute_grade_and_points

InitGrade ==
    /\ percent_marks \in GradePercents
    /\ is_practical \in BOOLEAN
    /\ grade_scheme \in (DOMAIN SCHEME_CONFIG) \cup {"None"}
    /\ gpc = "called"
    /\ grade_ret = NoReturn
    /\ BatchIdle
    /\ RowIdle

GradeConfig == IF grade_scheme = "None" THEN None ELSE SCHEME_CONFIG[grade_scheme]

CallGrade ==
    /\ gpc = "called"
    /\ grade_ret' = compute_grade_and_points(percent_marks, is_practical, GradeConfig)
    /\ gpc' = "returned"
    /\ UNCHANGED <<percent_marks, is_practical, grade_scheme, batch_vars, row_vars>>

NextGrade == CallGrade

SpecGrade == InitGrade /\ [][NextGrade]_vars

\* ------------------------------------------------------------------ claims

\* The courses a scheme lists, as a set.
CourseSet(s) == {SCHEME_CONFIG[s].courses[j] : j \in 1..Len(SCHEME_CONFIG[s].courses)}

\* The batch driver has resolved the course (or failed to).
Resolved == bpc \notin {"validate", "resolve"} \/ (caller = "transform_marks" /\ bpc = "resolve")

\* C1: get_scheme_for_course returns, for a course that a scheme lists, that
\* scheme's name and configuration; for a string that is an exact member of no
\* list it raises ValueError (the endpoint's HTTP 400, the direct caller's
\* ValueError) and no scheme, default or other, is ever returned.
C1_LookupReturnsOwnerOrRaises ==
    /\ \A s \in DOMAIN SCHEME_CONFIG :
          course \in CourseSet(s) =>
             /\ get_scheme_for_course(course) = [found |-> TRUE, scheme_name |-> s]
             /\ bpc # "ValueError"
             /\ Resolved => scheme_name = s /\ scheme_config = SCHEME_CONFIG[s]
    /\ (\A s \in DOMAIN SCHEME_CONFIG : course \notin CourseSet(s)) =>
          /\ ~get_scheme_for_course(course).found
          /\ scheme_name = "" /\ scheme_config = NoConfig
          /\ bpc \in {"validate", "resolve", "HTTP 400", "ValueError"}
          /\ Resolved => bpc = (IF caller = "transform_marks" THEN "HTTP 400" ELSE "ValueError")

\* The only course of the seventh scheme was resolved by a direct call.
C1_Witness ==
    /\ course = "M.Sc. Agriculture" /\ caller = "direct" /\ bpc = "rows"
    /\ scheme_name = "scheme7" /\ scheme_config.theory_passing = 60

Reverse(seq) == [j \in 1..Len(seq) |-> seq[Len(seq) + 1 - j]]

Rotate(seq, n) == [j \in 1..Len(seq) |-> seq[((j + n - 1) % Len(seq)) + 1]]

\* C2: no course is listed by two schemes nor twice by one, so the first
\* match is the same whatever the order in which the schemes are visited
\* (every rotation of the order and of its reverse).
C2_OneOwnerPerCourse ==
    /\ \A s1, s2 \in DOMAIN SCHEME_CONFIG :
          course \in CourseSet(s1) /\ course \in CourseSet(s2) => s1 = s2
    /\ \A s \in DOMAIN SCHEME_CONFIG :
          Cardinality({j \in 1..Len(SCHEME_CONFIG[s].courses) :
                          SCHEME_CONFIG[s].courses[j] = course}) <= 1
    /\ \A n \in 0..(Len(SchemeNames) - 1) :
          /\ LookupFrom(Rotate(SchemeNames, n), 1, course) = get_scheme_for_course(course)
          /\ LookupFrom(Rotate(Reverse(SchemeNames), n), 1, course)
                = get_scheme_for_course(course)

\* A course of the third scheme, which the forward and the reversed order
\* reach after different numbers of lists, was resolved.
C2_Witness == course = "BCA" /\ Resolved /\ scheme_name = "scheme3"

\* The batch driver has returned normally.
BatchSucceeded == bpc \in {"returned", "respond", "HTTP 200"}

\* C3: in transform_dataframe and the endpoint the course is resolved before
\* any row is transformed.  If resolution fails transform_row is invoked on no
\* row and the failure reaches the caller; if it succeeds transform_row is
\* invoked once per row, in input order, and the output holds one record per
\* row in that order, each the transform of its row under the course's scheme.
C3_ResolveThenEveryRowOnce ==
    /\ calls = [j \in 1..Len(calls) |-> j]
    /\ Len(calls) <= Len(df)
    /\ Len(transformed) \in {Len(calls), Len(calls) - 1}
    /\ calls # <<>> => get_scheme_for_course(course).found
                        /\ scheme_name = get_scheme_for_course(course).scheme_name
    /\ ~get_scheme_for_course(course).found =>
          /\ calls = <<>> /\ transformed = <<>>
          /\ ~BatchSucceeded /\ bpc \notin {"rows", "transform_row"}
    /\ BatchSucceeded =>
          /\ Len(calls) = Len(df)
          /\ Len(transformed) = Len(df)
          /\ \A j \in 1..Len(df) :
                transformed[j] = TransformRow(df[j], SCHEME_CONFIG[scheme_name]).new_row

\* A batch of two different rows went through the endpoint.
C3_Witness ==
    /\ bpc = "HTTP 200" /\ Len(df) = 2 /\ df[1] # df[2] /\ calls = <<1, 2>>
    /\ Len(transformed) = 2 /\ transformed[1] # transformed[2]

\* The output blocks of the record under construction, in output order.
Blocks == 1..Len(tr.subject_meta)

KindOf(k) == tr.subject_meta[k][2]

\* The field f"SUB{k}<name>" of the output record, blank when not yet written.
Out(name, k) == Get(tr.new_row, K(name, k), Blank)

In(name, i) == Get(row, K(name, i), Blank)

Text(v) == Strip(PyStr(v))

\* All four extraction loops have run.
Extracted == pc \in {"grace", "gate", "distribute", "grade", "finish", "done"}

\* Grace has been distributed (or withheld).
Distributed == pc \in {"grade", "finish", "done"}

\* C4: transform_row never raises on a record of scalars: no section raises,
\* and the call ends with an output record that carries the row-level results.
C4_TransformRowNeverRaises ==
    /\ ~tr.raised
    /\ pc = "done" => {K("RESULT", 0), K("SGPA", 0), K("TOT_CREDIT", 0),
                       K("TOT_CREDIT_POINTS", 0)} \subseteq DOMAIN tr.new_row

\* A record with a text in a marks field and a text "250/600" as its grand
\* total was transformed to the end.
C4_Witness ==
    /\ pc = "done"
    /\ In("EA", 1) = Tagged(1)
    /\ In("GTOT", 0) = Str(<<"2", "5", "0", "/", "6", "0", "0">>)
    /\ K("SGPA", 0) \in DOMAIN tr.new_row

\* The subjects the source index i holds, read off the raw record.
HasTheory(i) == Text(In("TIT", i)) # <<>> \/ Text(In("SUB", i)) # <<>>

HasLegacy(i) == HasTheory(i) /\ NotNa(In("PRSUB", i)) /\ Text(In("PRSUB", i)) # <<>>

HasModern(i) == Text(In("CODP", i)) # <<>> \/ Text(In("SUBP", i)) # <<>>

HasProject(i) ==
    \/ Text(In("CODPROJ", i)) # <<>> \/ Text(In("SUBPROJ", i)) # <<>>
    \/ Text(In("IPROJ", i)) # <<>> \/ Text(In("EPROJ", i)) # <<>>

HasDue(i) ==
    /\ K("DP", i) \in DOMAIN row
    /\ NotNa(row[K("DP", i)])
    /\ Lower(Text(row[K("DP", i)])) \notin {<<>>, <<"n", "a", "n">>, <<"n", "o", "n", "e">>}

Maybe(cond, class, i) == IF cond THEN << <<class, i>> >> ELSE <<>>

RECURSIVE TheoryPart(_)
TheoryPart(i) ==
    IF i > MaxIdx THEN <<>>
    ELSE Maybe(HasTheory(i), "theory", i) \o Maybe(HasLegacy(i), "legacy", i) \o TheoryPart(i + 1)

RECURSIVE ModernPart(_)
ModernPart(i) ==
    IF i > MaxIdx THEN <<>> ELSE Maybe(HasModern(i), "modern", i) \o ModernPart(i + 1)

RECURSIVE ProjectPart(_)
ProjectPart(i) ==
    IF i > MaxIdx THEN <<>> ELSE Maybe(HasProject(i), "project", i) \o ProjectPart(i + 1)

RECURSIVE DuePart(_)
DuePart(i) ==
    IF i > MaxIdx THEN <<>> ELSE Maybe(HasDue(i), "due", i) \o DuePart(i + 1)

\* The blocks the claim expects, each with its class and its source index.
ExpectedBlocks == TheoryPart(1) \o ModernPart(1) \o ProjectPart(1) \o DuePart(1)

KindClass(kind) ==
    CASE kind = "theory" -> "theory"
      [] kind = "practical" -> "legacy"
      [] kind \in {"practical_with_max", "practical_no_grace"} -> "modern"
      [] kind = "project" -> "project"
      [] kind = "due" -> "due"

\* Block k carries the code (or name) of the subject of class e[1] at source
\* index e[2].
CameFrom(k, e) ==
    CASE e[1] = "theory" -> Out("SUB", k) = Str(Text(In("COD", e[2])))
                              /\ Out("SUBNM", k) = Str(Text(In("SUB", e[2])))
      [] e[1] = "legacy" -> Out("SUBNM", k) = Str(Text(In("PRSUB", e[2])))
      [] e[1] = "modern" -> Out("SUB", k) = Str(Text(In("CODP", e[2])))
                              /\ Out("SUBNM", k) = Str(Text(In("SUBP", e[2])))
      [] e[1] = "project" -> K("SUB_TOT", k) \in DOMAIN tr.new_row
      [] e[1] = "due" -> Out("SUB", k) = Str(Text(In("DP", e[2])))

\* C5: the blocks are numbered 1..N without gaps, N the number of detected
\* subjects; an index without a subject consumes no number; the order is the
\* theory subjects by ascending index, each followed by its legacy practical,
\* then the modern practicals, the projects and the due papers.
C5_DenseOrderedBlocks ==
    Extracted =>
        /\ Len(tr.subject_meta) = Len(ExpectedBlocks)
        /\ tr.subject_counter = Len(ExpectedBlocks) + 1
        /\ {key[2] : key \in DOMAIN tr.new_row} \ {0} = 1..Len(ExpectedBlocks)
        /\ \A k \in Blocks :
              /\ tr.subject_meta[k][1] = k
              /\ KindClass(KindOf(k)) = ExpectedBlocks[k][1]
              /\ CameFrom(k, ExpectedBlocks[k])

\* A record whose first index is empty and whose second index holds a theory
\* subject, its legacy practical, a modern practical, a project and a due
\* paper was numbered 1..5.
C5_Witness ==
    /\ pc = "done"
    /\ ~HasTheory(1) /\ ~HasModern(1) /\ ~HasProject(1) /\ ~HasDue(1)
    /\ ExpectedBlocks = << <<"theory", 2>>, <<"legacy", 2>>, <<"modern", 2>>,
                           <<"project", 2>>, <<"due", 2>> >>
    /\ Len(tr.subject_meta) = 5

\* C6: a block classified practical, practical_with_max, practical_no_grace,
\* project or due never carries a grace annotation; only theory blocks can.
C6_GraceOnlyOnTheory ==
    \A k \in Blocks : KindOf(k) # "theory" => Out("SUB_GRACE", k) = Blank

\* A record with a theory block that received grace and a block that is not
\* theory, failing and without grace.
C6_Witness ==
    /\ pc = "done"
    /\ \E k \in Blocks : KindOf(k) = "theory" /\ Out("SUB_GRACE", k) = GraceText(1)
    /\ \E k \in Blocks : KindOf(k) # "theory" /\ Out("SUB_GRADE", k) = Str(<<"F">>)
                          /\ Out("SUB_GRACE", k) = Blank

\* The integer n of the annotation "G-n" of block k (one digit: a grant is at
\* most the limit, itself at most 6, rounded), 0 without an annotation.
RecordedGrace(k) ==
    IF \E n \in 0..9 : Out("SUB_GRACE", k) = GraceText(n)
    THEN CHOOSE n \in 0..9 : Out("SUB_GRACE", k) = GraceText(n)
    ELSE 0

RECURSIVE RecordedGraceUpTo(_)
RecordedGraceUpTo(k) == IF k = 0 THEN 0 ELSE RecordedGraceUpTo(k - 1) + RecordedGrace(k)

TotalRecordedGrace == RecordedGraceUpTo(Len(tr.subject_meta))

\* min(0.01 x the sum of the max marks of the theory subjects, 6)
RECURSIVE TheoryMaxUpTo(_)
TheoryMaxUpTo(j) ==
    IF j = 0 THEN Int2Num(0) ELSE FAdd(TheoryMaxUpTo(j - 1), tr.theory_subjects[j].max)

StatedLimit ==
    LET hundredth == FMul(Num(1, 100), TheoryMaxUpTo(Len(tr.theory_subjects)))
    IN  IF FLt(Int2Num(6), hundredth) THEN Int2Num(6) ELSE hundredth

\* C7: the sum of the recorded grace n over the blocks never exceeds
\* min(0.01 x sum of theory max marks, 6), fractional marks and maxima
\* included.
C7_RecordedGraceWithinLimit ==
    Distributed => ~FGt(Int2Num(TotalRecordedGrace), StatedLimit)

\* The shortfall of the claim: over the theory subjects below the passing
\* percent, max(0, theory_passing / 100 x max - marks).
StatedPercent(t) ==
    IF FGt(t.max, Int2Num(0)) THEN FMul(NpDiv(t.tot, t.max), Int2Num(100)) ELSE Int2Num(0)

StatedNeed(t) ==
    LET gap == FSub(FMul(Num(SCHEME_CONFIG[scheme].theory_passing, 100), t.max), t.tot)
    IN  IF FLt(StatedPercent(t), Int2Num(SCHEME_CONFIG[scheme].theory_passing))
           /\ FGt(gap, Int2Num(0))
        THEN gap ELSE Int2Num(0)

RECURSIVE StatedShortfallUpTo(_)
StatedShortfallUpTo(j) ==
    IF j = 0 THEN Int2Num(0)
    ELSE FAdd(StatedShortfallUpTo(j - 1), StatedNeed(tr.theory_subjects[j]))

StatedShortfall == StatedShortfallUpTo(Len(tr.theory_subjects))

\* Block k is graded on the percent the record shows for it.
GradedOnRecordedPercent(k) ==
    LET g == compute_grade_and_points(
                 Out("SUB_PERCENT", k),
                 KindOf(k) \in {"practical", "practical_with_max", "project"},
                 SCHEME_CONFIG[scheme])
    IN  /\ Out("SUB_GRADE", k) = Str(g.grade)
        /\ Out("SUB_GRADE_POINTS", k) = Int2Num(g.gp)

\* C8: when the total shortfall of the failing theory subjects exceeds the
\* grace limit, no block carries a nonzero grace and every grade is the grade
\* of the ungraced percent.
C8_ShortfallAboveLimitNoGrace ==
    FGt(StatedShortfall, StatedLimit) =>
        /\ Distributed => TotalRecordedGrace = 0
        /\ pc = "done" => \A k \in Blocks : GradedOnRecordedPercent(k)

\* The scenario of the claim: scheme1, one subject with 20 + 10 out of 100
\* and a second subject that brings the sum of the maxima to 500; the limit is
\* 5, the shortfall 6, the failing subject is graded F with 0 points.
C8_Witness ==
    /\ pc = "done" /\ scheme = "scheme1"
    /\ StatedLimit = Int2Num(5) /\ StatedShortfall = Int2Num(6)
    /\ tr.allow_grace
    /\ \E k \in Blocks :
          /\ Out("SUB_TH_MRKS", k) = Int2Num(20) /\ Out("SUB_CE_MRKS", k) = Int2Num(10)
          /\ Out("SUB_GRADE", k) = Str(<<"F">>) /\ Out("SUB_GRADE_POINTS", k) = Int2Num(0)
          /\ Out("SUB_GRACE", k) = Blank

\* The grand total as the claim reads it: a number, or the number a numeric
\* text spells.
StatedAggregatePercent ==
    FMul(NpDiv(ToNumeric(In("GTOT", 0)), In("GTOT_MAX", 0)), Int2Num(100))

\* C9: when GTOT_MAX is a positive number and GTOT / GTOT_MAX x 100, with GTOT
\* a number or a numeric text, is below aggregate_passing, no subject
\* receives grace.
C9_AggregateGateClosed ==
    ( /\ Distributed
      /\ IsNum(In("GTOT_MAX", 0)) /\ FGt(In("GTOT_MAX", 0), Int2Num(0))
      /\ IsNum(ToNumeric(In("GTOT", 0)))
      /\ FLt(StatedAggregatePercent, Int2Num(SCHEME_CONFIG[scheme].aggregate_passing)) )
    => TotalRecordedGrace = 0

\* The reference grade table: the band a percent falls in, bands read from
\* the top, the passing band last.
GradeBands ==
    << [from |-> 91, grade |-> <<"O">>, gp |-> 10],
       [from |-> 81, grade |-> <<"A", "+">>, gp |-> 9],
       [from |-> 71, grade |-> <<"A">>, gp |-> 8],
       [from |-> 61, grade |-> <<"B", "+">>, gp |-> 7],
       [from |-> 51, grade |-> <<"B">>, gp |-> 6],
       [from |-> 41, grade |-> <<"C", "+">>, gp |-> 5] >>

TableGrade(percent, threshold) ==
    LET reached == {j \in 1..Len(GradeBands) : FGe(percent, Int2Num(GradeBands[j].from))}
    IN  IF reached # {}
        THEN LET j == CHOOSE j \in reached : \A h \in reached : j <= h
             IN  [grade |-> GradeBands[j].grade, gp |-> GradeBands[j].gp]
        ELSE IF FGe(percent, Int2Num(threshold)) THEN [grade |-> <<"C">>, gp |-> 4]
        ELSE [grade |-> <<"F">>, gp |-> 0]

\* How the arguments of the call read: the absent marker, a percent (a number,
\* nan, an infinity, or a text that spells one), or neither.
AbsentMarkers == {Str(AB), Str(<<"a", "b">>), Str(<<" ", "A", "b", " ">>)}

SpelledPercents ==
    (Str(<<"6", "0">>) :> Int2Num(60))
    @@ (Str(<<" ", "6", "0", ".", "5">>) :> Num(121, 2))
    @@ (Str(<<"-", "5">>) :> Int2Num(0 - 5))
    @@ (Str(<<"n", "a", "n">>) :> NaN)

StatedThreshold ==
    LET config == IF grade_scheme = "None" THEN SCHEME_CONFIG["scheme1"]
                  ELSE SCHEME_CONFIG[grade_scheme]
    IN  IF is_practical THEN config.practical_passing ELSE config.theory_passing

StatedCredit(k) ==
    LET c == PyFloat(Out("SUB_CREDIT", k))
    IN  IF c.ok /\ IsNum(c.v) THEN c.v ELSE Int2Num(0)

RECURSIVE StatedCreditsUpTo(_)
StatedCreditsUpTo(k) ==
    IF k = 0 THEN Int2Num(0) ELSE FAdd(StatedCreditsUpTo(k - 1), StatedCredit(k))

RECURSIVE StatedCreditPointsUpTo(_)
StatedCreditPointsUpTo(k) ==
    IF k = 0 THEN Int2Num(0)
    ELSE FAdd(StatedCreditPointsUpTo(k - 1),
              FMul(Out("SUB_GRADE_POINTS", k), StatedCredit(k)))

StatedCreditSum == StatedCreditsUpTo(Len(tr.subject_meta))

StatedCreditPoints == StatedCreditPointsUpTo(Len(tr.subject_meta))

\* C11: in a returned record TOT_CREDIT_POINTS is the sum over the blocks of
\* grade points x credit (a credit that is no number counting 0), TOT_CREDIT
\* is the sum of the credits, SGPA is their quotient (to the two decimals the
\* record keeps) when the credit sum is positive and 0.0 otherwise, and no
\* division raises.
C11_CreditTotalsAndSgpa ==
    pc = "done" =>
        /\ ~tr.raised
        /\ Out("TOT_CREDIT_POINTS", 0) = StatedCreditPoints
        /\ Out("TOT_CREDIT", 0) = StatedCreditSum
        /\ Out("SGPA", 0) = IF FGt(StatedCreditSum, Int2Num(0))
                            THEN Round2(FDiv(StatedCreditPoints, StatedCreditSum))
                            ELSE Int2Num(0)

\* C12: in a returned record SGPA lies in [0, 10] whenever TOT_CREDIT > 0 and
\* is 0.0 whenever TOT_CREDIT = 0, whatever numeric credits the record carries.
C12_SgpaWithinRange ==
    pc = "done" =>
        /\ FGt(Out("TOT_CREDIT", 0), Int2Num(0)) =>
               FGe(Out("SGPA", 0), Int2Num(0)) /\ FLe(Out("SGPA", 0), Int2Num(10))
        /\ Out("TOT_CREDIT", 0) = Int2Num(0) => Out("SGPA", 0) = Int2Num(0)

\* The grand total marks and maximum of the output record as numbers, and
\* the aggregate percent they give.
StatedGrandMax == PyFloat(Out("GRAND_TOT_MAX", 0))

StatedGrandMarks == PyFloat(Out("GRAND_TOT_MRKS", 0))

StatedResultPercent == FMul(FDiv(StatedGrandMarks.v, StatedGrandMax.v), Int2Num(100))

StatedMaxIsPositive ==
    StatedGrandMax.ok /\ IsNum(StatedGrandMax.v) /\ FGt(StatedGrandMax.v, Int2Num(0))

\* C13: in a returned record whose grand total maximum is a number > 0,
\* RESULT is "PASS" exactly when the aggregate percent is at least
\* aggregate_passing and SGPA is at least 4.0, and "FAIL" otherwise, a record
\* without credits (SGPA 0.0) included; RESULT is the input value only when
\* the grand total maximum is no number or is <= 0.
C13_ResultFromAggregateAndSgpa ==
    pc = "done" =>
        IF StatedMaxIsPositive
        THEN Out("RESULT", 0) =
                 IF /\ StatedGrandMarks.ok
                    /\ FGe(StatedResultPercent, Int2Num(SCHEME_CONFIG[scheme].aggregate_passing))
                    /\ FGe(Out("SGPA", 0), Int2Num(4))
                 THEN Str(<<"PASS">>) ELSE Str(<<"FAIL">>)
        ELSE Out("RESULT", 0) = In("RESULT", 0)

\* C14: every block of the output record, whatever kind of subject it came
\* from, has a SUB{k}_TOT and a SUB{k}_PERCENT field, and a SUB{k}_PERCENT
\* that is a finite number lies between 0 and 100.
C14_EveryBlockHasTotAndPercent ==
    Extracted =>
        \A k \in Blocks :
            /\ K("SUB_TOT", k) \in DOMAIN tr.new_row
            /\ K("SUB_PERCENT", k) \in DOMAIN tr.new_row
            /\ IsNum(tr.new_row[K("SUB_PERCENT", k)]) =>
                   /\ FGe(tr.new_row[K("SUB_PERCENT", k)], Int2Num(0))
                   /\ FLe(tr.new_row[K("SUB_PERCENT", k)], Int2Num(100))

C16_FrameOfTransformRow ==
    [][ /\ df' = df
        /\ bpc = "transform_row" => row' = row /\ row = df[Len(calls)]
        /\ scheme_config' # scheme_config => bpc \in {"validate", "resolve"}
        /\ Len(transformed') >= Len(transformed)
        /\ SubSeq(transformed', 1, Len(transformed)) = transformed
        /\ Len(transformed') > Len(transformed) =>
               /\ Len(transformed') = Len(transformed) + 1
               /\ transformed'[Len(transformed')] =
                      TransformRow(df[Len(transformed')], scheme_config).new_row
      ]_vars

\* A batch of two different records was transformed to the end, the second
\* holding a due paper; the raw record of the last call is still the batch's.
C16_Witness ==
    /\ bpc = "returned" /\ Len(df) = 2 /\ df[1] # df[2] /\ Len(transformed) = 2
    /\ row = df[2] /\ K("DP", 2) \in DOMAIN row
    /\ transformed[1] # transformed[2]

\* The max marks the percent of the theory block k was computed with.
StatedSubjectMax(k) ==
    (CHOOSE t \in {tr.theory_subjects[j] : j \in 1..Len(tr.theory_subjects)} : t.idx = k).max

\* The percent of block k with its recorded grace n added: percent + n / max x 100.
StatedGracedPercent(k) ==
    FAdd(Out("SUB_PERCENT", k),
         FMul(FDiv(Int2Num(RecordedGrace(k)), StatedSubjectMax(k)), Int2Num(100)))

\* C17: in a returned record, a theory block that carries a grace G-n with
\* n > 0 is graded on its ungraced percent plus n / subject max x 100, with the
\* default maxima (70 + 30) and with a maximum taken from T{i}_MAX alike.
C17_GraceAddedToPercent ==
    pc = "done" =>
        \A k \in Blocks :
            KindOf(k) = "theory" /\ RecordedGrace(k) > 0 =>
                LET g == compute_grade_and_points(StatedGracedPercent(k), FALSE,
                                                  SCHEME_CONFIG[scheme])
                IN  /\ Out("SUB_GRADE", k) = Str(g.grade)
                    /\ Out("SUB_GRADE_POINTS", k) = Int2Num(g.gp)

\* The percent block k was graded on, as lines 663-691 compute it from the
\* returned record, and the kinds the claim grades on practical_passing.
StatedGradingPercent(k) ==
    GradedPercent(tr.new_row, k, KindOf(k), Int2Num(RecordedGrace(k)))

StatedPracticalKinds == {"practical", "practical_with_max", "practical_no_grace", "project"}

\* C18: in a returned record every block classified practical,
\* practical_with_max, practical_no_grace or project is graded against
\* practical_passing, and every block classified theory or due against
\* theory_passing.
C18_ThresholdByKind ==
    pc = "done" =>
        \A k \in Blocks :
            LET g == compute_grade_and_points(StatedGradingPercent(k),
                                              KindOf(k) \in StatedPracticalKinds,
                                              SCHEME_CONFIG[scheme])
            IN  /\ Out("SUB_GRADE", k) = Str(g.grade)
                /\ Out("SUB_GRADE_POINTS", k) = Int2Num(g.gp)

\* The grace gate has been evaluated.
GateChecked == pc \in {"distribute", "grade", "finish", "done"}

\* C19: the grace gate and RESULT read one aggregate percent.  Whenever the
\* percent that decides RESULT exists (the grand total maximum of the record
\* is a number > 0 and its grand total marks are readable, a "marks/max" text
\* included), the gate is open exactly when that percent is at least
\* aggregate_passing.
C19_GateAndResultSamePercent ==
    GateChecked /\ StatedMaxIsPositive /\ StatedGrandMarks.ok =>
        ( tr.allow_grace <=>
            FGe(StatedResultPercent, Int2Num(SCHEME_CONFIG[scheme].aggregate_passing)) )

\* The theory subject of source index i as the claim resolves it.  The
\* override applies when T{i}_MAX holds something: not an empty cell, not a
\* blank text, not the number 0.  A mark is read as its number, and as 0 when
\* it is blank, missing or the absent marker.
StatedOverride(i) ==
    /\ NotNa(In("T_MAX", i))
    /\ In("T_MAX", i) # Int2Num(0)
    /\ Text(In("T_MAX", i)) # <<>>

StatedTheoryMax(i) ==
    IF StatedOverride(i) THEN PyFloat(In("T_MAX", i)).v ELSE Int2Num(100)

StatedTheoryTotal(i) ==
    IF StatedOverride(i) THEN ToNumeric(In("T", i))
    ELSE FAdd(MarkOrZero(In("EA", i)).v, MarkOrZero(In("IA", i)).v)

\* raw total / maximum x 100, and what a maximum <= 0 gives instead.
StatedTheoryPercent(i, otherwise) ==
    IF FGt(StatedTheoryMax(i), Int2Num(0))
    THEN FMul(FDiv(StatedTheoryTotal(i), StatedTheoryMax(i)), Int2Num(100))
    ELSE otherwise

\* The fields the resolution reads are readable: the override maximum is a
\* number or spells one, the marks are numbers, numeric texts, blank or "AB".
StatedTheoryReadable(i) ==
    IF StatedOverride(i)
    THEN PyFloat(In("T_MAX", i)).ok /\ IsNum(PyFloat(In("T_MAX", i)).v)
    ELSE /\ MarkOrZero(In("EA", i)).ok /\ IsNum(MarkOrZero(In("EA", i)).v)
         /\ MarkOrZero(In("IA", i)).ok /\ IsNum(MarkOrZero(In("IA", i)).v)

\* Every theory block carries the stated raw total and the stated percent.
StatedTheoryResolution(otherwise) ==
    Extracted =>
        \A k \in 1..Len(ExpectedBlocks) :
            LET e == ExpectedBlocks[k]
            IN  e[1] = "theory" /\ StatedTheoryReadable(e[2]) =>
                    /\ Out("SUB_TOT", k) = StatedTheoryTotal(e[2])
                    /\ Out("SUB_PERCENT", k) = StatedTheoryPercent(e[2], otherwise)

StatedGiven(v) == Text(v) \notin {<<>>, <<"n", "a", "n">>, <<"N", "o", "n", "e">>}

\* A marks field read as a number, an empty one as 0.
StatedMark(v) == IF IsNum(v) THEN v ELSE Int2Num(0)

StatedModernFields == {"EAP", "IAP", "P", "EAP_MAX", "IAP_MAX", "P_MAX"}

\* The modern practical at source index i has numbers or empty cells only.
StatedModernReadable(i) ==
    \A name \in StatedModernFields : IsNum(In(name, i)) \/ In(name, i) = Blank

StatedModernWithMax(i) ==
    \E name \in {"EAP_MAX", "IAP_MAX", "P_MAX"} : StatedGiven(In(name, i))

StatedModernTotal(i) ==
    IF StatedGiven(In("P", i)) THEN In("P", i)
    ELSE FAdd(StatedMark(In("EAP", i)), StatedMark(In("IAP", i)))

\* P_MAX if present, else EAP_MAX + IAP_MAX, else the fallback.
StatedModernMax(i, separate) ==
    IF StatedGiven(In("P_MAX", i)) THEN In("P_MAX", i)
    ELSE IF separate /\ (StatedGiven(In("EAP_MAX", i)) \/ StatedGiven(In("IAP_MAX", i)))
         THEN FAdd(StatedMark(In("EAP_MAX", i)), StatedMark(In("IAP_MAX", i)))
         ELSE Int2Num(200)

StatedModernResolution(separate) ==
    Extracted =>
        \A k \in 1..Len(ExpectedBlocks) :
            LET i == ExpectedBlocks[k][2]
                total == StatedModernTotal(i)
                max == StatedModernMax(i, separate)
            IN  ExpectedBlocks[k][1] = "modern" =>
                    /\ KindOf(k) = IF StatedModernWithMax(i) THEN "practical_with_max"
                                   ELSE "practical_no_grace"
                    /\ StatedModernWithMax(i) /\ StatedModernReadable(i)
                         /\ FGt(max, Int2Num(0)) =>
                            /\ Out("SUB_TOT", k) = total
                            /\ Out("SUB_TOTAL_MAX", k) = max
                            /\ Out("SUB_PERCENT", k) = FMul(FDiv(total, max), Int2Num(100))

\* C21: a CODP/SUBP subject is practical_with_max iff one of EAP_MAX, IAP_MAX,
\* P_MAX is present, else practical_no_grace; for practical_with_max the total
\* is P if present else EAP + IAP, the max is P_MAX if present, else EAP_MAX +
\* IAP_MAX, else 200, and the percent is total / max * 100.
C21_ModernPracticalResolution == StatedModernResolution(TRUE)

\* A field is non-blank when it is not missing and its trimmed text is not empty.
StatedNonBlank(v) == NotNa(v) /\ Text(v) # <<>>

StatedProject(i) ==
    \E name \in {"CODPROJ", "SUBPROJ", "IPROJ", "EPROJ"} : StatedNonBlank(In(name, i))

StatedProjectMaxField(i) ==
    IF K("PROJMAX", i) \in DOMAIN row THEN In("PROJMAX", i) ELSE In("PROJMAX ", i)

\* The project at source index i has numbers or empty cells only.
StatedProjectReadable(i) ==
    /\ \A name \in {"IPROJ", "EPROJ", "PROJ"} : IsNum(In(name, i)) \/ In(name, i) = Blank
    /\ IsNum(StatedProjectMaxField(i)) \/ StatedProjectMaxField(i) = Blank

StatedProjectTotal(i) ==
    IF StatedGiven(In("PROJ", i)) THEN In("PROJ", i)
    ELSE FAdd(StatedMark(In("IPROJ", i)), StatedMark(In("EPROJ", i)))

StatedProjectMax(i) ==
    IF StatedGiven(StatedProjectMaxField(i)) THEN StatedProjectMaxField(i) ELSE Int2Num(200)

\* The source indices of the project blocks, in output order.
RECURSIVE ProjectIndicesFrom(_)
ProjectIndicesFrom(k) ==
    IF k > Len(ExpectedBlocks) THEN <<>>
    ELSE (IF KindOf(k) = "project" THEN <<ExpectedBlocks[k][2]>> ELSE <<>>)
             \o ProjectIndicesFrom(k + 1)

RECURSIVE StatedProjectIndicesFrom(_)
StatedProjectIndicesFrom(i) ==
    IF i > MaxIdx THEN <<>>
    ELSE (IF StatedProject(i) THEN <<i>> ELSE <<>>) \o StatedProjectIndicesFrom(i + 1)

\* The stated total, maximum and percent of the project blocks.
StatedProjectMarks ==
    \A k \in 1..Len(ExpectedBlocks) :
        LET i == ExpectedBlocks[k][2]
            total == StatedProjectTotal(i)
            max == StatedProjectMax(i)
        IN  KindOf(k) = "project" /\ StatedProject(i) /\ StatedProjectReadable(i)
              /\ FGt(max, Int2Num(0)) =>
                /\ Out("SUB_TOT", k) = total
                /\ Out("SUB_TOTAL_MAX", k) = max
                /\ Out("SUB_PERCENT", k) = FMul(FDiv(total, max), Int2Num(100))

\* C22: a project block is emitted at source index i iff one of CODPROJ,
\* SUBPROJ, IPROJ, EPROJ is non-blank after trimming, a missing value not
\* counting as non-blank; its total is PROJ if present, else IPROJ + EPROJ, its
\* max is PROJMAX if present, else 200, and its percent is total / max * 100.
C22_ProjectResolution ==
    Extracted =>
        /\ ProjectIndicesFrom(1) = StatedProjectIndicesFrom(1)
        /\ StatedProjectMarks

\* C23: the credit of a project block is CHPROJ{i} when that field is present
\* and non-blank, and otherwise the positional credit-hours field CH (of the
\* source index or of the block's own number).
C23_ProjectCreditFallsBackToCH ==
    Extracted =>
        \A k \in 1..Len(ExpectedBlocks) :
            LET i == ExpectedBlocks[k][2]
            IN  KindOf(k) = "project" =>
                    IF StatedGiven(In("CHPROJ", i))
                    THEN Out("SUB_CREDIT", k) = In("CHPROJ", i)
                    ELSE Out("SUB_CREDIT", k) \in {In("CH", i), In("CH", k)}

\* The number a field holds, as a number or as a numeric text; nan otherwise.
StatedCoerced(v) ==
    IF IsNum(v) THEN v
    ELSE IF IsStr(v) /\ ParseFloat(v.s).ok THEN ParseFloat(v.s).v
    ELSE NaN

\* The source indices that hold a due paper.
StatedDueIndices == {i \in 1..MaxIdx : HasDue(i)}

StatedLastDue == CHOOSE i \in StatedDueIndices : \A j \in StatedDueIndices : j <= i

StatedLegacyText(i) == Text(In("P", i))

StatedLegacyLeft(i) ==
    LET t == StatedLegacyText(i)
    IN  Strip(SubSeq(t, 1, (CHOOSE j \in 1..Len(t) : t[j] = "/") - 1))

StatedLegacyRight(i) ==
    LET t == StatedLegacyText(i)
    IN  Strip(SubSeq(t, (CHOOSE j \in 1..Len(t) : t[j] = "/") + 1, Len(t)))

StatedLegacyPair(i) == \E j \in 1..Len(StatedLegacyText(i)) : StatedLegacyText(i)[j] = "/"

StatedLegacyMarks(i) ==
    StatedCoerced(Str(IF StatedLegacyPair(i) THEN StatedLegacyLeft(i) ELSE StatedLegacyText(i)))

StatedLegacyMax(i) ==
    IF StatedLegacyPair(i) THEN StatedCoerced(Str(StatedLegacyRight(i))) ELSE Int2Num(50)

\* C25: a legacy practical whose P{i} is a pair "marks/max" has percent marks /
\* max * 100 (to two decimals) and the two sides as PR_MRKS and PR_MAX; a bare
\* number has percent marks / 50 * 100 and PR_MAX 50; content that is no
\* number gets no percent and a blank grade with 0 grade points.
C25_LegacyPracticalResolution ==
    Extracted =>
        \A k \in 1..Len(ExpectedBlocks) :
            LET i == ExpectedBlocks[k][2]
                marks == StatedLegacyMarks(i)
                max == StatedLegacyMax(i)
            IN  ExpectedBlocks[k][1] = "legacy" =>
                    /\ KindOf(k) = "practical"
                    /\ IF StatedLegacyPair(i)
                       THEN /\ Out("SUB_PR_MRKS", k) = Str(StatedLegacyLeft(i))
                            /\ Out("SUB_PR_MAX", k) = Str(StatedLegacyRight(i))
                       ELSE Out("SUB_PR_MAX", k) = Int2Num(50)
                    /\ IF IsNum(marks) /\ IsNum(max)
                       THEN FGt(max, Int2Num(0)) =>
                               Out("SUB_PERCENT", k)
                                   = Round2(FMul(FDiv(marks, max), Int2Num(100)))
                       ELSE /\ Out("SUB_PERCENT", k) = Blank
                            /\ pc = "done" =>
                                  /\ Out("SUB_GRADE", k) = Blank
                                  /\ Out("SUB_GRADE_POINTS", k) = Int2Num(0)

\* A record with a legacy practical "18/20", graded A+ with 9 points on the
\* percent 90, and a legacy practical whose content is no number.
C25_Witness ==
    /\ pc = "done"
    /\ \E k \in Blocks :
          /\ ExpectedBlocks[k] = <<"legacy", 2>>
          /\ StatedLegacyText(2) = <<"1", "8", "/", "2", "0">>
          /\ Out("SUB_PERCENT", k) = Int2Num(90)
          /\ Out("SUB_GRADE", k) = Str(<<"A", "+">>)
          /\ Out("SUB_GRADE_POINTS", k) = Int2Num(9)
    /\ \E k \in Blocks :
          /\ ExpectedBlocks[k] = <<"legacy", 1>>
          /\ ~IsNum(StatedLegacyMarks(1))
          /\ Out("SUB_GRADE", k) = Blank

\* The source indices whose blocks of one kind appear in the output record.
EmittedIndices(kind) ==
    {ExpectedBlocks[k][2] : k \in {h \in 1..Len(ExpectedBlocks) : KindOf(h) = kind}}

\* C26: detection is per kind and depends only on that kind's identifying
\* fields: a legacy practical block is emitted at source index i iff PRSUB{i}
\* is non-empty after trimming, whether or not a theory subject exists at the
\* same index; a theory block iff TIT{i} or SUB{i} is non-empty, and a due
\* block iff DP{i} is non-empty.
C26_DetectionPerKind ==
    Extracted =>
        /\ Len(tr.subject_meta) = Len(ExpectedBlocks)
        /\ EmittedIndices("theory") = {i \in 1..MaxIdx : HasTheory(i)}
        /\ EmittedIndices("due") = {i \in 1..MaxIdx : HasDue(i)}
        /\ EmittedIndices("practical") = {i \in 1..MaxIdx : StatedNonBlank(In("PRSUB", i))}
        /\ Cardinality({k \in Blocks : KindOf(k) = "practical"})
               = Cardinality({i \in 1..MaxIdx : StatedNonBlank(In("PRSUB", i))})

\* The subject of block e has a total that is no number: a theory subject with
\* an override maximum whose T{i} is blank or no number, or a modern practical
\* with maxima whose P{i} is no number.
StatedDegenerate(e) ==
    \/ /\ e[1] = "theory"
       /\ StatedOverride(e[2])
       /\ ~IsNum(StatedCoerced(In("T", e[2])))
    \/ /\ e[1] = "modern"
       /\ StatedModernWithMax(e[2])
       /\ StatedGiven(In("P", e[2]))
       /\ ~IsNum(StatedCoerced(In("P", e[2])))

\* C27: a subject whose total cannot be parsed as a number is never graded as
\* a failure: its grade is blank with 0 grade points, not "F".
C27_DegenerateSubjectBlankGrade ==
    pc = "done" =>
        \A k \in 1..Len(ExpectedBlocks) :
            StatedDegenerate(ExpectedBlocks[k]) =>
                /\ Out("SUB_GRADE", k) = Blank
                /\ Out("SUB_GRADE_POINTS", k) = Int2Num(0)

\* The theory subject t was failing before grace.
StatedFailing(t) ==
    IsNum(t.tot) /\ FLt(StatedPercent(t), Int2Num(SCHEME_CONFIG[scheme].theory_passing))

\* Block k ends at or above theory_passing with a grade other than F.
StatedRescued(k) ==
    /\ FGe(StatedGradingPercent(k), Int2Num(SCHEME_CONFIG[scheme].theory_passing))
    /\ Out("SUB_GRADE", k) # Str(<<"F">>)

\* C28: when the aggregate gate is open and the total shortfall is within the
\* grace limit, every theory subject that was failing before grace ends with a
\* final percent >= theory_passing and a grade other than F, with default and
\* with override maxima, and with a fractional shortfall.
C28_GraceRescues ==
    pc = "done" /\ tr.allow_grace /\ FLe(StatedShortfall, StatedLimit) =>
        \A j \in 1..Len(tr.theory_subjects) :
            StatedFailing(tr.theory_subjects[j]) => StatedRescued(tr.theory_subjects[j].idx)

\* C29: under every scheme and for every kind of subject, a percent below the
\* passing threshold that applies to it is graded F with 0 grade points, also
\* under the schemes whose thresholds exceed 41.
C29_BelowThresholdIsF ==
    gpc = "returned" /\ IsNum(percent_marks)
        /\ FLt(percent_marks, Int2Num(StatedThreshold)) =>
            grade_ret = [grade |-> <<"F">>, gp |-> 0]

\* The grand total of the raw record, trimmed, and its two sides.
StatedGrandText == Text(In("GTOT", 0))

StatedGrandPair == \E j \in 1..Len(StatedGrandText) : StatedGrandText[j] = "/"

StatedGrandLeft ==
    Strip(SubSeq(StatedGrandText, 1, (CHOOSE j \in 1..Len(StatedGrandText) :
                                          StatedGrandText[j] = "/") - 1))

StatedGrandRight ==
    Strip(SubSeq(StatedGrandText, (CHOOSE j \in 1..Len(StatedGrandText) :
                                       StatedGrandText[j] = "/") + 1, Len(StatedGrandText)))

\* C30: when GTOT is a text "marks/max", GRAND_TOT_MRKS is the trimmed part
\* before the slash and GRAND_TOT_MAX the trimmed part after it; without a
\* slash GRAND_TOT_MRKS is the trimmed GTOT and GRAND_TOT_MAX the row's TTOT.
C30_GrandTotalSplit ==
    pc = "done" =>
        IF StatedGrandPair
        THEN /\ Out("GRAND_TOT_MRKS", 0) = Str(StatedGrandLeft)
             /\ Out("GRAND_TOT_MAX", 0) = Str(StatedGrandRight)
        ELSE /\ Out("GRAND_TOT_MRKS", 0) = Str(StatedGrandText)
             /\ Out("GRAND_TOT_MAX", 0) = In("TTOT", 0)

=============================================================================
